---- MODULE Spec2Model ----
(***************************************************************************)
(* A model of the citation resolution core: the key normaliser and the     *)
(* two-tier citation library (citation_library.py), the rate-limited       *)
(* transport (engines/base.py), the news waterfall                          *)
(* (engines/waterfall_news_resolver.py), the parallel batch lookup        *)
(* (processors/endnote_to_author_date.py), the URL router                  *)
(* (engines/smart_url_router.py), the cost tracking (cost_tracker.py) and  *)
(* the per-document log (document_logger.py).                              *)
(*                                                                         *)
(* Strings that the code takes apart (author names, lookup keys) are       *)
(* sequences of one-character strings; opaque strings are TLA+ strings.    *)
(***************************************************************************)
EXTENDS Integers, Sequences, FiniteSets, TLC

VARIABLES
    \* ---- the relational store behind citation_library.py ----
    dbState,          \* "up" | "no_conn" (connect fails) | "query_fails"
    citations,        \* table citations: set of rows
    citation_authors, \* table citation_authors: set of rows
    lookup_aliases,   \* table lookup_aliases: set of rows
    user_libraries,   \* table user_libraries: set of rows
    lookup_log,       \* table lookup_log: sequence of rows
    nextId,           \* the serial sequence behind citations.id
    ret,              \* what the last library call did and returned
    \* ---- concurrent save_to_global transactions ----
    wk,               \* worker -> state of its open transaction
    lookupKeyUnique,  \* whether citations.lookup_key carries a unique index
    \* ---- WaterfallNewsResolver ----
    today,            \* datetime.now().date(), as a day number
    resolver,         \* the fields of one WaterfallNewsResolver
    wfTrace,          \* what the last resolve() sent, logged and returned
    sentToday,        \* requests sent to the rate-limited free APIs this calendar day
    \* ---- EndnoteToAuthorDateProcessor._lookup_all_citations ----
    bpc,              \* where the calling thread is
    batchInput,       \* original_text of self.citations when the call began
    cits,             \* self.citations
    futs,             \* state of the future submitted for each citation
    doneOrder,        \* the finished futures and what their lookup got, in completion order
    collected,        \* how many futures the as_completed loop has taken
    components_map,   \* self.components_map
    routerMode,       \* how get_citation behaves during the call
    \* ---- SearchEngine._make_request ----
    providerMode,     \* how the provider behind the engine answers
    tr,               \* the call in progress: position, retry_count, trace
    \* ---- callers of _make_request ----
    search,           \* MultiAttemptEngine.search: its loop and the calls it made
    calls,            \* worker thread -> its _make_request call to one provider
    \* ---- the key functions of citation_library.py called on their own ----
    keyCall,          \* the last call: its arguments and the keys it returned
    \* ---- SmartURLRouter ----
    urlRouter,        \* the fields of one SmartURLRouter, and AI_AUTHOR_FALLBACK
    urlTrace,         \* what the last resolve() sent, logged, asked the AI and returned
    \* ---- resolve() called by several threads on one WaterfallNewsResolver ----
    resolving,        \* thread -> where it is in resolve(), and what it has counted
    \* ---- cost_tracker.py ----
    tracking,         \* thread -> _thread_local.tracking of that thread
    ledger,           \* thread -> the log_api_call runs since its last start, and their costs
    costTrace,        \* the last cost_tracker call and what it returned
    \* ---- DocumentLogger ----
    docLogger         \* the fields of one DocumentLogger

libVars == <<dbState, citations, citation_authors, lookup_aliases,
             user_libraries, lookup_log, nextId, ret>>
raceVars == <<wk, lookupKeyUnique>>
wfVars == <<today, resolver, wfTrace, sentToday>>
batchVars == <<bpc, batchInput, cits, futs, doneOrder, collected, components_map,
               routerMode>>
trVars == <<providerMode, tr>>
callerVars == <<search, calls>>
keyVars == <<keyCall>>
urlVars == <<urlRouter, urlTrace>>
resolveVars == <<resolving>>
costVars == <<tracking, ledger, costTrace>>
logVars == <<docLogger>>
lateVars == <<resolveVars, costVars, logVars>>

-----------------------------------------------------------------------------
(* Bounds *)

MaxRecords == 2       \* rows in citations, and values drawn for citations.id
MaxLookupCount == 2   \* cap on citations.lookup_count
MaxUseCount == 2      \* cap on user_libraries.use_count
MaxLog == 2           \* rows in lookup_log

-----------------------------------------------------------------------------
(* Characters and strings *)

LowerLetters == {"a", "b", "c"}
UpperLetters == {"A", "B"}
Punctuation == {"'", "-", " "}

\* str.lower() on one character
LowerChar(ch) ==
    CASE ch = "A" -> "a"
      [] ch = "B" -> "b"
      [] OTHER -> ch

\* code-point order of the characters that can occur in a normalised name
CharRank(ch) ==
    CASE ch = "a" -> 1
      [] ch = "b" -> 2
      [] ch = "c" -> 3
      [] OTHER -> 0

\* Python's str comparison: lexicographic, a proper prefix sorts first
RECURSIVE StrLeq(_, _)
StrLeq(s, t) ==
    IF s = <<>> THEN TRUE
    ELSE IF t = <<>> THEN FALSE
    ELSE IF CharRank(Head(s)) < CharRank(Head(t)) THEN TRUE
    ELSE IF CharRank(Head(s)) > CharRank(Head(t)) THEN FALSE
    ELSE StrLeq(Tail(s), Tail(t))

IsLowerLetter(ch) == ch \in LowerLetters

\* name.lower() followed by re.sub(r'[^a-z]', '', name)
normalize_author_name(name) ==
    SelectSeq([i \in 1..Len(name) |-> LowerChar(name[i])], IsLowerLetter)

\* list.sort() on a list of strings (insertion sort, stable)
RECURSIVE InsertSorted(_, _)
InsertSorted(x, s) ==
    IF s = <<>> THEN <<x>>
    ELSE IF StrLeq(Head(s), x) THEN <<Head(s)>> \o InsertSorted(x, Tail(s))
    ELSE <<x>> \o s

RECURSIVE SortStrings(_)
SortStrings(s) ==
    IF s = <<>> THEN <<>>
    ELSE InsertSorted(s[Len(s)], SortStrings(SubSeq(s, 1, Len(s) - 1)))

\* '_'.join(parts)
RECURSIVE JoinUnderscore(_)
JoinUnderscore(parts) ==
    IF parts = <<>> THEN <<>>
    ELSE IF Len(parts) = 1 THEN parts[1]
    ELSE parts[1] \o <<"_">> \o JoinUnderscore(Tail(parts))

NonEmpty(s) == s # <<>>

\* normalized.sort() left out: the names stay in the order given
generate_lookup_key_unsorted(authors, year) ==
    LET given == SelectSeq(authors, NonEmpty)
        normalized == SelectSeq([i \in 1..Len(given) |->
                                    normalize_author_name(given[i])], NonEmpty)
    IN  JoinUnderscore(normalized) \o <<"_">> \o year

generate_lookup_key(authors, year) ==
    LET given == SelectSeq(authors, NonEmpty)
        normalized == SelectSeq([i \in 1..Len(given) |->
                                    normalize_author_name(given[i])], NonEmpty)
    IN  JoinUnderscore(SortStrings(normalized)) \o <<"_">> \o year

\* the authors a request names, in argument order
AuthorsGiven(req) ==
    <<req.author>>
    \o (IF req.second_author # <<>> THEN <<req.second_author>> ELSE <<>>)
    \o (IF req.third_author # <<>> THEN <<req.third_author>> ELSE <<>>)

\* the primary key made of the first author alone
generate_alias_keys_first_only(req) ==
    LET authors == AuthorsGiven(req)
        head == normalize_author_name(req.author)
    IN  <<generate_lookup_key(<<req.author>>, req.year)>>
        \o (IF Len(authors) > 1 \/ req.is_et_al
            THEN <<head \o <<"_", "e", "t", "_", "a", "l", "_">> \o req.year>>
            ELSE <<>>)
        \o (IF Len(authors) > 1 THEN <<head \o <<"_">> \o req.year>> ELSE <<>>)

\* "or is_et_al" left out: the et-al key only with more than one author
generate_alias_keys_plural_only(req) ==
    LET authors == AuthorsGiven(req)
        head == normalize_author_name(req.author)
    IN  <<generate_lookup_key(authors, req.year)>>
        \o (IF Len(authors) > 1
            THEN <<head \o <<"_", "e", "t", "_", "a", "l", "_">> \o req.year>>
            ELSE <<>>)
        \o (IF Len(authors) > 1 THEN <<head \o <<"_">> \o req.year>> ELSE <<>>)

\* A request is [author, year, second_author, third_author, is_et_al];
\* an absent (None) or empty optional author is <<>>.
generate_alias_keys(req) ==
    LET authors == <<req.author>>
                   \o (IF req.second_author # <<>> THEN <<req.second_author>> ELSE <<>>)
                   \o (IF req.third_author # <<>> THEN <<req.third_author>> ELSE <<>>)
        primary == <<generate_lookup_key(authors, req.year)>>
        etal == IF Len(authors) > 1 \/ req.is_et_al
                THEN <<normalize_author_name(req.author)
                       \o <<"_", "e", "t", "_", "a", "l", "_">> \o req.year>>
                ELSE <<>>
        first == IF Len(authors) > 1
                 THEN <<normalize_author_name(req.author) \o <<"_">> \o req.year>>
                 ELSE <<>>
    IN  primary \o etal \o first

-----------------------------------------------------------------------------
(* The store: rows and queries of citation_library.py *)

\* citations.lookup_count of a freshly inserted row (the column default)
DefaultLookupCount == 1
\* user_libraries.use_count of a freshly inserted row (the column default)
DefaultUseCount == 1

\* Python None for an Optional[LibraryCitation] / Optional[int]
NoCitation == [id |-> 0, lookup_key |-> <<>>, title |-> "", authors |-> <<>>,
               confidence |-> 0, lookup_count |-> 0]

\* SourceComponents handed to save_to_global; confidence in tenths.
\* An author name that is empty makes author.split()[-1] raise.
ComponentsPool ==
    { [title |-> "t1", authors |-> <<"Endler, J">>, confidence |-> 8],
      [title |-> "t2", authors |-> <<"Rushton P", "">>, confidence |-> 10] }

Name(ch) == <<ch>>
Req(a, s, e) == [author |-> a, year |-> <<"1">>, second_author |-> s,
                 third_author |-> <<>>, is_et_al |-> e]
\* the requests the library is driven with
LibRequests ==
    { Req(Name("a"), <<>>, FALSE), Req(Name("A"), <<>>, TRUE),
      Req(Name("a"), Name("b"), FALSE), Req(Name("a"), Name("c"), FALSE) }
NoReq == Req(<<>>, <<>>, FALSE)

UserIds == {1}
NoUser == 0

\* get_connection(): None unless the store can be reached
get_connection == IF dbState = "no_conn" THEN "None" ELSE "conn"

\* does a statement executed on an open connection raise?
ExecuteRaises == dbState = "query_fails"

\* ARRAY_AGG(ca.full_name ORDER BY ca.position) over the LEFT JOIN
RECURSIVE AuthorsFrom(_, _)
AuthorsFrom(cid, pos) ==
    LET rows == {a \in citation_authors : a.citation_id = cid /\ a.position = pos}
    IN  IF rows = {} THEN <<>>
        ELSE <<(CHOOSE a \in rows : TRUE).full_name>> \o AuthorsFrom(cid, pos + 1)

AuthorsOf(cid) ==
    IF {a \in citation_authors : a.citation_id = cid} = {} THEN <<"NULL">>
    ELSE AuthorsFrom(cid, 1)

\* LibraryCitation(...) built from a row of citations
RowToCitation(c, conf) ==
    [id |-> c.id, lookup_key |-> c.lookup_key, title |-> c.title,
     authors |-> AuthorsOf(c.id), confidence |-> conf,
     lookup_count |-> c.lookup_count]

\* for key, value in overrides.items(): if hasattr(citation, key): setattr(...)
ApplyOverrides(cit, overrides) ==
    [f \in DOMAIN cit |-> IF f \in DOMAIN overrides THEN overrides[f] ELSE cit[f]]

\* The rows the two SELECTs of lookup_global can fetch: by lookup_key first,
\* by alias only when that finds nothing.
GlobalRows(key) ==
    LET byKey == {c \in citations : c.lookup_key = key}
        byAlias == {c \in citations :
                      \E a \in lookup_aliases : a.citation_id = c.id /\ a.alias_key = key}
    IN  IF byKey # {} THEN byKey ELSE byAlias

\* An outcome of a lookup: the citation found, None (Miss), or an exception
\* that leaves the function (Raised).  fetchone() returns any fetched row.
Miss == [val |-> NoCitation, found |-> FALSE, raised |-> FALSE]
Raised == [val |-> NoCitation, found |-> FALSE, raised |-> TRUE]
Hit(c) == [val |-> c, found |-> TRUE, raised |-> FALSE]

\* lookup_global without its except clause
LookupGlobalUnhandled(key) ==
    IF get_connection = "None" THEN {Miss}
    ELSE IF ExecuteRaises THEN {Raised}
    ELSE IF GlobalRows(key) = {} THEN {Miss}
    ELSE {Hit(RowToCitation(c, c.confidence)) : c \in GlobalRows(key)}

lookup_global(key) ==
    IF get_connection = "None" THEN {Miss}
    ELSE IF ExecuteRaises THEN {Miss}
    ELSE IF GlobalRows(key) = {} THEN {Miss}
    ELSE {Hit(RowToCitation(c, c.confidence)) : c \in GlobalRows(key)}

\* user_libraries JOIN citations WHERE ul.user_id = %s AND c.lookup_key = %s
UserRows(user_id, key) ==
    {<<ul, c>> \in user_libraries \X citations :
        ul.user_id = user_id /\ ul.citation_id = c.id /\ c.lookup_key = key}

lookup_user_library(user_id, key) ==
    IF get_connection = "None" THEN {Miss}
    ELSE IF ExecuteRaises THEN {Miss}
    ELSE IF UserRows(user_id, key) = {} THEN {Miss}
    ELSE {Hit(ApplyOverrides(RowToCitation(p[2], 10), p[1].override_data)) :
            p \in UserRows(user_id, key)}

-----------------------------------------------------------------------------
(* Writes of citation_library.py, each one transaction *)

\* author.split()[-1] raises IndexError on a name with no word in it
AuthorParseRaises(author) == author = ""

\* INSERT INTO lookup_aliases ... with no conflict clause on a table without the index
InsertAliasBlind(tbl, cid, alias) ==
    tbl \cup {[citation_id |-> cid, alias_key |-> alias]}

\* INSERT INTO lookup_aliases ... ON CONFLICT (alias_key) DO NOTHING
InsertAlias(tbl, cid, alias) ==
    IF \E a \in tbl : a.alias_key = alias THEN tbl
    ELSE tbl \cup {[citation_id |-> cid, alias_key |-> alias]}

\* the alias loop left out: the record is stored under its primary key only
InsertAliasesNone(tbl, cid, aliases) == tbl

\* for alias in lookup_keys[1:]
RECURSIVE InsertAliases(_, _, _)
InsertAliases(tbl, cid, aliases) ==
    IF aliases = <<>> THEN tbl
    ELSE InsertAliases(InsertAlias(tbl, cid, Head(aliases)), cid, Tail(aliases))

AuthorRows(cid, authors) ==
    {[citation_id |-> cid, position |-> i, full_name |-> authors[i]] :
        i \in 1..Len(authors)}

NewCitationRow(cid, primary_key, components) ==
    [id |-> cid, lookup_key |-> primary_key, title |-> components.title,
     confidence |-> components.confidence, lookup_count |-> DefaultLookupCount]

\* UPDATE citations SET lookup_count = lookup_count - 1 WHERE id = %s
IncrementLookupCountDown(tbl, cid) ==
    {IF c.id = cid THEN [c EXCEPT !.lookup_count = @ - 1] ELSE c : c \in tbl}

\* the UPDATE left out: the existing id is returned and nothing is counted
IncrementLookupCountNone(tbl, cid) == tbl

\* UPDATE citations SET lookup_count = lookup_count + 1 WHERE id = %s
IncrementLookupCount(tbl, cid) ==
    {IF c.id = cid THEN [c EXCEPT !.lookup_count = @ + 1] ELSE c : c \in tbl}

\* The stored effect of one save_to_global that is not interleaved with another:
\* [citations, citation_authors, lookup_aliases, nextId, cid, path].
\* cid = 0 is the None the call returns on an error.
\* the rollback left out: the citation row and the author rows inserted
\* before the failing one stay
AfterRollbackKeepsRows(primary_key, components) ==
    LET bad == CHOOSE i \in 1..Len(components.authors) :
                   /\ AuthorParseRaises(components.authors[i])
                   /\ \A j \in 1..(i - 1) : ~AuthorParseRaises(components.authors[j])
    IN  [citations |-> citations \cup {NewCitationRow(nextId, primary_key, components)},
         citation_authors |-> citation_authors \cup
                              AuthorRows(nextId, SubSeq(components.authors, 1, bad - 1)),
         lookup_aliases |-> lookup_aliases, nextId |-> nextId + 1,
         cid |-> 0, path |-> "error"]

\* except Exception: conn.rollback(); return None -- after the INSERT INTO
\* citations ran: its rows go, the value drawn from the sequence stays drawn
AfterRollback(primary_key, components) ==
    [citations |-> citations, citation_authors |-> citation_authors,
     lookup_aliases |-> lookup_aliases, nextId |-> nextId + 1,
     cid |-> 0, path |-> "error"]

SaveOutcomes(components, lookup_keys) ==
    LET primary_key == lookup_keys[1]
        same == [citations |-> citations, citation_authors |-> citation_authors,
                 lookup_aliases |-> lookup_aliases, nextId |-> nextId,
                 cid |-> 0, path |-> "error"]
        existing == {c \in citations : c.lookup_key = primary_key}
    IN  IF get_connection = "None" THEN {[same EXCEPT !.path = "no_conn"]}
        ELSE IF ExecuteRaises THEN {same}
        ELSE IF existing # {}
        THEN {[same EXCEPT !.citations = IncrementLookupCount(citations, e.id),
                           !.cid = e.id, !.path = "increment"] : e \in existing}
        ELSE IF \E i \in 1..Len(components.authors) :
                    AuthorParseRaises(components.authors[i])
        THEN {AfterRollback(primary_key, components)}
        ELSE {[citations |-> citations \cup
                             {NewCitationRow(nextId, primary_key, components)},
               citation_authors |-> citation_authors \cup
                                    AuthorRows(nextId, components.authors),
               lookup_aliases |-> InsertAliases(lookup_aliases, nextId,
                                                Tail(lookup_keys)),
               nextId |-> nextId + 1, cid |-> nextId, path |-> "insert"]}

\* INSERT INTO user_libraries ... ON CONFLICT (user_id, citation_id) DO UPDATE
\* SET use_count = use_count + 1.  The result is [user_libraries, ok].
add_to_user_library(user_id, citation_id) ==
    IF get_connection = "None" \/ ExecuteRaises
    THEN [user_libraries |-> user_libraries, ok |-> FALSE]
    ELSE IF \E ul \in user_libraries :
                ul.user_id = user_id /\ ul.citation_id = citation_id
    THEN [user_libraries |->
             {IF ul.user_id = user_id /\ ul.citation_id = citation_id
              THEN [ul EXCEPT !.use_count = @ + 1] ELSE ul : ul \in user_libraries},
          ok |-> TRUE]
    ELSE [user_libraries |-> user_libraries \cup
             {[user_id |-> user_id, citation_id |-> citation_id,
               use_count |-> DefaultUseCount, override_data |-> <<>>]},
          ok |-> TRUE]

\* the row written with hit_source 'miss' whatever the outcome
log_lookup_as_miss(normalized_key, hit_source, citation_id, user_id) ==
    IF get_connection = "None" \/ ExecuteRaises THEN lookup_log
    ELSE Append(lookup_log, [hit_source |-> "miss"])

\* log_lookup(...): one row, or nothing when the store cannot be reached.
\* Of the row's columns the model keeps hit_source; nothing reads the
\* others back.
log_lookup(normalized_key, hit_source, citation_id, user_id) ==
    IF get_connection = "None" \/ ExecuteRaises THEN lookup_log
    ELSE Append(lookup_log, [hit_source |-> hit_source])

-----------------------------------------------------------------------------
(* library_lookup *)

\* for key in reversed(keys): the keys tried from the last to the first
RECURSIVE TierLoopLast(_, _, _, _)
TierLoopLast(tier, user_id, keys, i) ==
    IF i > Len(keys) THEN {[out |-> Miss, n |-> Len(keys)]}
    ELSE UNION { IF o.raised \/ o.found THEN {[out |-> o, n |-> i]}
                 ELSE TierLoopLast(tier, user_id, keys, i + 1) :
                 o \in IF tier = "user"
                       THEN lookup_user_library(user_id, keys[Len(keys) + 1 - i])
                       ELSE lookup_global(keys[Len(keys) + 1 - i]) }

\* for key in keys: result = lookup(key); if result: break
\* n is the number of queries sent to the tier.
RECURSIVE TierLoop(_, _, _, _)
TierLoop(tier, user_id, keys, i) ==
    IF i > Len(keys) THEN {[out |-> Miss, n |-> Len(keys)]}
    ELSE UNION { IF o.raised \/ o.found THEN {[out |-> o, n |-> i]}
                 ELSE TierLoop(tier, user_id, keys, i + 1) :
                 o \in IF tier = "user" THEN lookup_user_library(user_id, keys[i])
                       ELSE lookup_global(keys[i]) }

\* "if not result:" dropped: the shared tier is searched after a user hit too
GlobalTierAlways(user_result, keys) == TierLoop("global", NoUser, keys, 1)

\* 2. Check global library: "if not result: for key in keys: ..."
GlobalTier(user_result, keys) ==
    IF user_result.found THEN {[out |-> Miss, n |-> 0]}
    ELSE TierLoop("global", NoUser, keys, 1)

\* The outcomes of library_lookup(author, year, second_author, third_author,
\* is_et_al, user_id): what it returns, how many queries each tier got, and
\* the tables it writes.
LibraryLookupOutcomes(req, user_id) ==
    LET keys == generate_alias_keys(req)
        userTier == IF user_id # NoUser THEN TierLoop("user", user_id, keys, 1)
                    ELSE {[out |-> Miss, n |-> 0]}
    IN  UNION {
          { LET raised == u.out.raised \/ g.out.raised
                \* the second loop, when it runs, assigns result at every turn
                hit_source == IF g.out.found THEN "global"
                              ELSE IF u.out.found THEN "user" ELSE "miss"
                result == IF g.n > 0 THEN g.out.val ELSE u.out.val
                promoted == IF g.out.found /\ user_id # NoUser
                            THEN add_to_user_library(user_id, g.out.val.id).user_libraries
                            ELSE user_libraries
            IN  [result |-> result, hit_source |-> hit_source, raised |-> raised,
                 nUser |-> u.n, nGlobal |-> g.n,
                 user_libraries |-> promoted,
                 lookup_log |-> IF raised THEN lookup_log
                                ELSE log_lookup(keys[1], hit_source, result.id, user_id)]
            : g \in IF u.out.raised THEN {[out |-> Miss, n |-> 0]}
                    ELSE GlobalTier(u.out, keys) }
          : u \in userTier }

-----------------------------------------------------------------------------
(* The library driven by one caller at a time *)

vars == <<libVars, raceVars, wfVars, batchVars, trVars, callerVars, keyVars, urlVars, lateVars>>

\* the components a library call does not touch
notLib == <<raceVars, wfVars, batchVars, trVars, callerVars, keyVars, urlVars, lateVars>>

\* the components a concurrent save does not touch
notStore == <<wfVars, batchVars, trVars, callerVars, keyVars, urlVars, lateVars>>

RaceIdle ==
    /\ wk = <<>>
    /\ lookupKeyUnique = TRUE

WfIdle ==
    /\ today = 1
    /\ resolver = <<>>
    /\ wfTrace = <<>>
    /\ sentToday = <<>>

BatchIdle ==
    /\ bpc = "off"
    /\ batchInput = <<>>
    /\ cits = <<>>
    /\ futs = <<>>
    /\ doneOrder = <<>>
    /\ collected = 0
    /\ components_map = <<>>
    /\ routerMode = "off"

CallersIdle ==
    /\ search = <<>>
    /\ calls = <<>>

KeysIdle == keyCall = <<>>

UrlIdle ==
    /\ urlRouter = <<>>
    /\ urlTrace = <<>>

ResolveIdle == resolving = <<>>

CostIdle ==
    /\ tracking = <<>>
    /\ ledger = <<>>
    /\ costTrace = <<>>

LogIdle == docLogger = <<>>

LateIdle == ResolveIdle /\ CostIdle /\ LogIdle

TrIdle ==
    /\ providerMode = "off"
    /\ tr = <<>>
    /\ CallersIdle

NoRet == [op |-> "none", req |-> NoReq, uid |-> NoUser, db |-> "up",
          hit_source |-> "miss", cid |-> 0,
          raised |-> FALSE, nUser |-> 0, nGlobal |-> 0, nLog |-> 0,
          path |-> "none", confidence |-> 0]

WithinCaps ==
    /\ Cardinality(citations') <= MaxRecords
    /\ nextId' <= MaxRecords + 1
    /\ \A c \in citations' : c.lookup_count <= MaxLookupCount
    /\ \A ul \in user_libraries' : ul.use_count <= MaxUseCount
    /\ Len(lookup_log') <= MaxLog

LibInit ==
    /\ dbState = "up"
    /\ citations = {}
    /\ citation_authors = {}
    /\ lookup_aliases = {}
    /\ user_libraries = {}
    /\ lookup_log = <<>>
    /\ nextId = 1
    /\ ret = NoRet

\* the store becomes unreachable, starts failing queries, or comes back
SetDb(s) ==
    /\ dbState # s
    /\ dbState' = s
    /\ ret' = [NoRet EXCEPT !.op = "setdb", !.db = s]
    /\ UNCHANGED <<citations, citation_authors, lookup_aliases, user_libraries,
                   lookup_log, nextId>>
    /\ UNCHANGED notLib

SaveToGlobal(req, components) ==
    \E o \in SaveOutcomes(components, generate_alias_keys(req)) :
        /\ citations' = o.citations
        /\ citation_authors' = o.citation_authors
        /\ lookup_aliases' = o.lookup_aliases
        /\ nextId' = o.nextId
        /\ ret' = [NoRet EXCEPT !.op = "save", !.req = req, !.db = dbState,
                                !.cid = o.cid, !.path = o.path]
        /\ UNCHANGED <<dbState, user_libraries, lookup_log>>
        /\ UNCHANGED notLib
        /\ WithinCaps

LibraryLookup(req, user_id) ==
    \E o \in LibraryLookupOutcomes(req, user_id) :
        /\ user_libraries' = o.user_libraries
        /\ lookup_log' = o.lookup_log
        /\ ret' = [NoRet EXCEPT !.op = "lookup", !.req = req, !.uid = user_id,
                                !.db = dbState, !.hit_source = o.hit_source,
                                !.cid = o.result.id,
                                !.confidence = o.result.confidence,
                                !.raised = o.raised, !.nUser = o.nUser,
                                !.nGlobal = o.nGlobal,
                                !.nLog = Len(o.lookup_log) - Len(lookup_log)]
        /\ UNCHANGED <<dbState, citations, citation_authors, lookup_aliases, nextId>>
        /\ UNCHANGED notLib
        /\ WithinCaps

AddToUserLibrary(user_id, citation_id) ==
    /\ user_libraries' = add_to_user_library(user_id, citation_id).user_libraries
    /\ ret' = [NoRet EXCEPT !.op = "add", !.uid = user_id, !.db = dbState,
                            !.cid = citation_id]
    /\ UNCHANGED <<dbState, citations, citation_authors, lookup_aliases,
                   lookup_log, nextId>>
    /\ UNCHANGED notLib
    /\ WithinCaps

Init == LibInit /\ RaceIdle /\ WfIdle /\ BatchIdle /\ TrIdle /\ KeysIdle /\ UrlIdle /\ LateIdle

LibNext ==
    \/ \E s \in {"up", "no_conn", "query_fails"} : SetDb(s)
    \/ \E req \in LibRequests, components \in ComponentsPool :
          SaveToGlobal(req, components)
    \/ \E req \in LibRequests, user_id \in UserIds \cup {NoUser} :
          LibraryLookup(req, user_id)
    \/ \E user_id \in UserIds, c \in citations :
          AddToUserLibrary(user_id, c.id)

Next == LibNext
Spec == Init /\ [][Next]_vars

\* The library driven with requests whose author is empty or has no letter
MalformedRequests ==
    { Req(<<>>, <<>>, FALSE), Req(<<"'">>, <<>>, TRUE), Req(Name("a"), <<>>, FALSE) }

MalformedNext ==
    \/ \E s \in {"up", "no_conn", "query_fails"} : SetDb(s)
    \/ \E req \in MalformedRequests, components \in ComponentsPool :
          SaveToGlobal(req, components)
    \/ \E req \in MalformedRequests, user_id \in UserIds \cup {NoUser} :
          LibraryLookup(req, user_id)
    \/ \E user_id \in UserIds, c \in citations :
          AddToUserLibrary(user_id, c.id)

SpecMalformed == Init /\ [][MalformedNext]_vars

-----------------------------------------------------------------------------
(* The library with user copies that carry field-level overrides *)

\* the override_data a user's copy can hold (a JSON object of fields)
OverrideValues == { [title |-> "mine"], [confidence |-> 5] }

\* an explicit user override is stored with the user's copy
SetOverride(user_id, citation_id, overrides) ==
    /\ dbState = "up"
    /\ \E ul \in user_libraries :
          /\ ul.user_id = user_id /\ ul.citation_id = citation_id
          /\ ul.override_data # overrides
    /\ user_libraries' =
          {IF ul.user_id = user_id /\ ul.citation_id = citation_id
           THEN [ul EXCEPT !.override_data = overrides] ELSE ul : ul \in user_libraries}
    /\ ret' = [NoRet EXCEPT !.op = "override", !.uid = user_id, !.db = dbState,
                            !.cid = citation_id]
    /\ UNCHANGED <<dbState, citations, citation_authors, lookup_aliases,
                   lookup_log, nextId>>
    /\ UNCHANGED notLib

OverrideRequests == { Req(Name("a"), <<>>, FALSE), Req(Name("a"), Name("b"), FALSE) }

OverrideNext ==
    \/ \E s \in {"up", "no_conn", "query_fails"} : SetDb(s)
    \/ \E req \in OverrideRequests, components \in ComponentsPool :
          SaveToGlobal(req, components)
    \/ \E req \in OverrideRequests, user_id \in UserIds \cup {NoUser} :
          LibraryLookup(req, user_id)
    \/ \E user_id \in UserIds, c \in citations :
          AddToUserLibrary(user_id, c.id)
    \/ \E user_id \in UserIds, c \in citations, overrides \in OverrideValues :
          SetOverride(user_id, c.id, overrides)

SpecOverrides == Init /\ [][OverrideNext]_vars

-----------------------------------------------------------------------------
(* save_to_global called by several workers at once.  Each call is one      *)
(* transaction at READ COMMITTED: its statements see the rows committed so  *)
(* far and its own; its rows become visible to the others at its commit.    *)

NumWorkers == 2
Workers == 1..NumWorkers

NoRow == [id |-> 0, lookup_key |-> <<>>, title |-> "", confidence |-> 0,
          lookup_count |-> 0]

IdleWorker == [pc |-> "idle", keys |-> <<>>, components |-> [title |-> "",
               authors |-> <<>>, confidence |-> 0], existing |-> 0,
               row |-> NoRow, aliases |-> {}, i |-> 0, result |-> 0]

RaceInit ==
    /\ LibInit
    /\ wk = [w \in Workers |-> IdleWorker]
    /\ lookupKeyUnique \in BOOLEAN

\* save_to_global(components, lookup_keys) is called: conn = get_connection()
Begin(w, req, components) ==
    /\ wk[w].pc = "idle"
    /\ get_connection # "None"
    /\ wk' = [wk EXCEPT ![w] = [IdleWorker EXCEPT !.pc = "select",
                                   !.keys = generate_alias_keys(req),
                                   !.components = components]]
    /\ UNCHANGED <<libVars, lookupKeyUnique, notStore>>

\* SELECT id FROM citations WHERE lookup_key = %s; existing = cur.fetchone()
SelectExisting(w) ==
    /\ wk[w].pc = "select"
    /\ LET found == {c \in citations : c.lookup_key = wk[w].keys[1]}
       IN  \/ /\ found = {}
              /\ wk' = [wk EXCEPT ![w].pc = "insert"]
           \/ \E c \in found :
                 wk' = [wk EXCEPT ![w].pc = "update", ![w].existing = c.id]
    /\ UNCHANGED <<libVars, lookupKeyUnique, notStore>>

\* UPDATE citations SET lookup_count = lookup_count + 1 WHERE id = %s:
\* takes the row's lock, waiting for a transaction that holds it
UpdateCount(w) ==
    /\ wk[w].pc = "update"
    /\ \A v \in Workers \ {w} :
          ~(wk[v].pc = "commit_update" /\ wk[v].existing = wk[w].existing)
    /\ wk' = [wk EXCEPT ![w].pc = "commit_update"]
    /\ UNCHANGED <<libVars, lookupKeyUnique, notStore>>

\* conn.commit(); return existing[0]
CommitUpdate(w) ==
    /\ wk[w].pc = "commit_update"
    /\ citations' = IncrementLookupCount(citations, wk[w].existing)
    /\ wk' = [wk EXCEPT ![w].pc = "done", ![w].result = wk[w].existing]
    /\ UNCHANGED <<dbState, citation_authors, lookup_aliases, user_libraries,
                   lookup_log, nextId, ret, lookupKeyUnique, notStore>>

\* INSERT INTO citations (...) RETURNING id.  With a unique index on
\* lookup_key the insert waits for an uncommitted row with the same key and
\* raises once that row is committed; the except clause rolls back and the
\* call returns None.
InsertCitation(w) ==
    /\ wk[w].pc = "insert"
    /\ nextId <= MaxRecords + 1
    /\ lookupKeyUnique =>
          \A v \in Workers \ {w} : wk[v].row.lookup_key # wk[w].keys[1]
    /\ nextId' = nextId + 1
    /\ IF lookupKeyUnique /\ \E c \in citations : c.lookup_key = wk[w].keys[1]
       THEN wk' = [wk EXCEPT ![w].pc = "done", ![w].result = 0]
       ELSE wk' = [wk EXCEPT ![w].pc = "authors",
                      ![w].row = NewCitationRow(nextId, wk[w].keys[1],
                                                wk[w].components)]
    /\ UNCHANGED <<dbState, citations, citation_authors, lookup_aliases,
                   user_libraries, lookup_log, ret, lookupKeyUnique, notStore>>

\* for i, author in enumerate(components.authors, 1): INSERT INTO citation_authors
InsertAuthors(w) ==
    /\ wk[w].pc = "authors"
    /\ IF \E i \in 1..Len(wk[w].components.authors) :
             AuthorParseRaises(wk[w].components.authors[i])
       THEN wk' = [wk EXCEPT ![w].pc = "done", ![w].result = 0, ![w].row = NoRow]
       ELSE wk' = [wk EXCEPT ![w].pc = "aliases", ![w].i = 2]
    /\ UNCHANGED <<libVars, lookupKeyUnique, notStore>>

\* one turn of "for alias in lookup_keys[1:]": INSERT ... ON CONFLICT
\* (alias_key) DO NOTHING waits for an uncommitted row with the same key
InsertAliasStep(w) ==
    /\ wk[w].pc = "aliases"
    /\ wk[w].i <= Len(wk[w].keys)
    /\ \A v \in Workers \ {w} :
          \A a \in wk[v].aliases : a.alias_key # wk[w].keys[wk[w].i]
    /\ wk' = [wk EXCEPT ![w].i = @ + 1,
                        ![w].aliases =
                            IF \E a \in lookup_aliases :
                                  a.alias_key = wk[w].keys[wk[w].i]
                            THEN @
                            ELSE InsertAlias(@, wk[w].row.id, wk[w].keys[wk[w].i])]
    /\ UNCHANGED <<libVars, lookupKeyUnique, notStore>>

\* conn.commit(); return citation_id
CommitInsert(w) ==
    /\ wk[w].pc = "aliases"
    /\ wk[w].i > Len(wk[w].keys)
    /\ citations' = citations \cup {wk[w].row}
    /\ citation_authors' = citation_authors \cup
                           AuthorRows(wk[w].row.id, wk[w].components.authors)
    /\ lookup_aliases' = lookup_aliases \cup wk[w].aliases
    /\ wk' = [wk EXCEPT ![w].pc = "done", ![w].result = wk[w].row.id,
                        ![w].row = NoRow, ![w].aliases = {}]
    /\ UNCHANGED <<dbState, user_libraries, lookup_log, nextId, ret,
                   lookupKeyUnique, notStore>>

RaceNext ==
    \/ \E w \in Workers, req \in LibRequests, components \in ComponentsPool :
          Begin(w, req, components)
    \/ \E w \in Workers : SelectExisting(w)
    \/ \E w \in Workers : UpdateCount(w)
    \/ \E w \in Workers : CommitUpdate(w)
    \/ \E w \in Workers : InsertCitation(w)
    \/ \E w \in Workers : InsertAuthors(w)
    \/ \E w \in Workers : InsertAliasStep(w)
    \/ \E w \in Workers : CommitInsert(w)

ConcurrentInit == RaceInit /\ WfIdle /\ BatchIdle /\ TrIdle /\ KeysIdle /\ UrlIdle /\ LateIdle

SpecRace == ConcurrentInit /\ [][RaceNext]_vars

-----------------------------------------------------------------------------
(* The news waterfall: engines/waterfall_news_resolver.py *)

\* the path of a URL after re.split(r'[/\-_]', path): a sequence of parts,
\* each a sequence of characters
PathParts ==
    { <<>>, <<"2", "0", "2", "4">>, <<"u", "s">>, <<"N", "e", "w", "s">>,
      <<"e", "c", "o", "n">> }

Urls == {<<>>} \cup {<<p>> : p \in PathParts} \cup
        {<<p, q>> : p \in {<<"2", "0", "2", "4">>, <<"N", "e", "w", "s">>},
                    q \in PathParts}

Digits == {"0", "1", "2", "3", "4", "5", "6", "7", "8", "9"}

\* str.lower() on the letters the paths are made of
PartLower(part) ==
    [i \in 1..Len(part) |-> IF part[i] = "N" THEN "n" ELSE part[i]]

skip_words ==
    { <<"s", "t", "y", "l", "e">>, <<"m", "e", "d", "i", "a">>,
      <<"a", "r", "t", "i", "c", "l", "e">>, <<"p", "o", "s", "t">>,
      <<"b", "l", "o", "g">>, <<"n", "e", "w", "s">>, <<"s", "t", "o", "r", "y">>,
      <<"o", "p", "i", "n", "i", "o", "n", "s">>,
      <<"e", "d", "i", "t", "o", "r", "i", "a", "l">>,
      <<"c", "o", "m", "m", "e", "n", "t", "a", "r", "y">> }

\* re.match(r'^\d+$', part)
AllDigits(part) == part # <<>> /\ \A i \in 1..Len(part) : part[i] \in Digits

KeepPart(part) ==
    /\ ~AllDigits(part)
    /\ ~(Len(part) < 3)
    /\ PartLower(part) \notin skip_words

\* _extract_keywords_from_url: the parts that are kept, in order
RECURSIVE extract_keywords_from_url(_)
extract_keywords_from_url(url) ==
    IF url = <<>> THEN <<>>
    ELSE IF KeepPart(Head(url))
         THEN <<Head(url)>> \o extract_keywords_from_url(Tail(url))
         ELSE extract_keywords_from_url(Tail(url))

\* A title is a sequence of tokens; the token " - " is the separator that
\* Google News puts between the headline and the source name.
Sep == " - "
Titles == { <<>>, <<"T">>, <<"T", Sep, "S">>, <<Sep, "S">> }

\* title.rsplit(' - ', 1): the title cut at its last separator
LastSep(title) ==
    CHOOSE i \in 1..Len(title) :
        title[i] = Sep /\ \A j \in (i + 1)..Len(title) : title[j] # Sep

RSplit(title) ==
    IF \E i \in 1..Len(title) : title[i] = Sep
    THEN <<SubSeq(title, 1, LastSep(title) - 1),
           SubSeq(title, LastSep(title) + 1, Len(title))>>
    ELSE <<title>>

\* what a provider answers to requests.get: the call raises, or a response
\* with a status and, in its body, the list of entries
NoSource == <<>>
\* the date field of an entry ('published', 'published_at', 'pubDate',
\* 'date'): missing or given
Dates == {"", "D"}

\* the snippet of an entry: missing, a text with a byline, a text without one
Snippets == {"", "By Ann Lee", "text"}

\* _extract_authors_from_snippet: [] for no snippet, the name after "By" if
\* the pattern matches, [] otherwise
extract_authors_from_snippet(snippet) ==
    IF snippet = "" THEN <<>>
    ELSE IF snippet = "By Ann Lee" THEN <<"Ann Lee">>
    ELSE <<>>

\* the entries of a response: none, or one entry; every title and source with
\* no date and no snippet, and every date and snippet with one title and source
Entries ==
    {<<>>} \cup
    {<<[title |-> t, source |-> s, date |-> "", snippet |-> ""]>> :
        t \in Titles, s \in {NoSource, <<"Src">>}} \cup
    {<<[title |-> <<"T">>, source |-> <<"Src">>, date |-> d, snippet |-> sn]>> :
        d \in Dates, sn \in Snippets}
Responses ==
    {[kind |-> "raise", status |-> 0, entries |-> <<>>]} \cup
    {[kind |-> "http", status |-> 500, entries |-> <<>>]} \cup
    {[kind |-> "http", status |-> 200, entries |-> e] : e \in Entries}

\* the keyword parameters of cost_tracker.log_api_call
log_api_call_params ==
    { "provider", "input_tokens", "output_tokens", "query", "function",
      "source_type", "citation_type", "success", "confidence", "latency_ms",
      "error_message", "metadata" }

\* a call with a keyword the function does not declare raises TypeError
LogApiCallRaises(kwargs) == ~(kwargs \subseteq log_api_call_params)

NoMetadata == [title |-> <<>>, authors |-> <<>>, publication |-> <<>>,
               date |-> "", method_used |-> "None"]

\* _empty_metadata(url): title None, is_complete() False
EmptyMetadata == [title |-> <<>>, authors |-> <<>>, publication |-> <<>>,
                  date |-> "", method_used |-> "none"]

\* Metadata.is_complete(): bool(self.title); "result and result.is_complete()"
IsComplete(m) == m.method_used \notin {"None", "none"} /\ m.title # <<>>

\* _extract_publication_name(url): a name made from the domain, never empty
PublicationOfDomain == <<"Domain">>

\* the metadata _try_google_news_rss makes of feed.entries[0]
RssMetadata(entry) ==
    LET hasSource == entry.source # NoSource
        parts == RSplit(entry.title)
        split == ~hasSource /\ Len(parts) = 2
        source == IF hasSource THEN entry.source
                  ELSE IF split THEN parts[2] ELSE <<>>
    IN  [title |-> IF split THEN parts[1] ELSE entry.title,
         authors |-> extract_authors_from_snippet(entry.snippet),
         publication |-> IF source = <<>> THEN PublicationOfDomain ELSE source,
         date |-> entry.date,
         method_used |-> "google_news_rss"]

\* the metadata the JSON providers make of their first article (an article
\* of NewsData.io has no 'creator' here, so its authors come from the snippet
\* as well)
ArticleMetadata(entry, method, source_default) ==
    [title |-> entry.title,
     authors |-> extract_authors_from_snippet(entry.snippet),
     date |-> entry.date,
     publication |-> IF entry.source = <<>> THEN source_default ELSE entry.source,
     method_used |-> method]

\* The body shared by the four _try_* methods: requests.get, log_api_call,
\* then the parse, all inside "try: ... except Exception: pass; return None".
\* sent lists the requests made, logged the calls log_api_call recorded.
TryProvider(provider, kwargs, resp, metadata) ==
    LET failed == [result |-> NoMetadata, sent |-> <<provider>>, logged |-> <<>>]
    IN  IF resp.kind = "raise" THEN failed
        ELSE IF LogApiCallRaises(kwargs) THEN failed
        ELSE IF resp.status # 200 \/ resp.entries = <<>>
             THEN [failed EXCEPT !.logged = <<provider>>]
             ELSE [failed EXCEPT !.logged = <<provider>>, !.result = metadata]

FirstEntry(resp) ==
    IF resp.entries = <<>>
    THEN [title |-> <<>>, source |-> NoSource, date |-> "", snippet |-> ""]
    ELSE resp.entries[1]

\* log_api_call('google_news_rss', query=..., function='news_metadata', cost=0.0)
try_google_news_rss(url, resp) ==
    TryProvider("google_news_rss", {"provider", "query", "function", "cost"},
                resp, RssMetadata(FirstEntry(resp)))

\* log_api_call('thenewsapi', query=..., function='news_metadata', cost=0.0)
try_thenewsapi(url, resp) ==
    TryProvider("thenewsapi", {"provider", "query", "function", "cost"},
                resp, ArticleMetadata(FirstEntry(resp), "thenewsapi", <<>>))

\* log_api_call('newsdata', query=..., function='news_metadata', cost=0.0)
try_newsdata(url, resp) ==
    TryProvider("newsdata", {"provider", "query", "function", "cost"},
                resp, ArticleMetadata(FirstEntry(resp), "newsdata", <<>>))

\* log_api_call('serpapi', query=keywords, function='news_metadata_paid')
try_serpapi(url, resp) ==
    TryProvider("serpapi", {"provider", "query", "function"},
                resp, ArticleMetadata(FirstEntry(resp), "serpapi_news",
                                      PublicationOfDomain))

TheNewsApiDailyLimit == 100
NewsDataDailyLimit == 200

\* __init__: dir() inside the method lists its local names, self and debug
InitLocals == {"self", "debug"}

\* the keys of config looked up where they are: bool(KEY) for each
NewResolverKeysSeen(serpapi_key_set, thenewsapi_key_set, newsdata_key_set) ==
    [thenewsapi_calls_today |-> 0, newsdata_calls_today |-> 0, last_reset |-> today,
     has_serpapi |-> serpapi_key_set,
     has_thenewsapi |-> thenewsapi_key_set,
     has_newsdata |-> newsdata_key_set]

NewResolver(serpapi_key_set, thenewsapi_key_set, newsdata_key_set) ==
    [thenewsapi_calls_today |-> 0, newsdata_calls_today |-> 0, last_reset |-> today,
     has_serpapi |-> serpapi_key_set,
     has_thenewsapi |-> IF "THENEWSAPI_KEY" \in InitLocals
                        THEN thenewsapi_key_set ELSE FALSE,
     has_newsdata |-> IF "NEWSDATA_KEY" \in InitLocals
                      THEN newsdata_key_set ELSE FALSE]

\* _check_daily_reset
check_daily_reset(r) ==
    IF today # r.last_reset
    THEN [r EXCEPT !.thenewsapi_calls_today = 0, !.newsdata_calls_today = 0,
                   !.last_reset = today]
    ELSE r

\* One tier of resolve() has run: its result replaces the previous one, its
\* requests and log entries follow the earlier ones.
AfterTier(acc, t) ==
    [acc EXCEPT !.result = t.result, !.sent = acc.sent \o t.sent,
                !.logged = acc.logged \o t.logged]

\* TIER 1: Google News RSS
Tier1(url, acc) ==
    {[AfterTier(acc, try_google_news_rss(url, resp)) EXCEPT !.rss = resp] :
        resp \in Responses}

\* TIER 2: The News API; the counter moves once requests.get has returned
Tier2(url, acc) ==
    IF IsComplete(acc.result) THEN {acc}
    ELSE IF acc.resolver.has_thenewsapi
            /\ acc.resolver.thenewsapi_calls_today < TheNewsApiDailyLimit
    THEN {[AfterTier(acc, try_thenewsapi(url, resp)) EXCEPT
              !.resolver.thenewsapi_calls_today =
                  IF resp.kind = "raise" THEN @ ELSE @ + 1] : resp \in Responses}
    ELSE {acc}

\* TIER 3: NewsData.io
Tier3(url, acc) ==
    IF IsComplete(acc.result) THEN {acc}
    ELSE IF acc.resolver.has_newsdata
            /\ acc.resolver.newsdata_calls_today < NewsDataDailyLimit
    THEN {[AfterTier(acc, try_newsdata(url, resp)) EXCEPT
              !.resolver.newsdata_calls_today =
                  IF resp.kind = "raise" THEN @ ELSE @ + 1] : resp \in Responses}
    ELSE {acc}

\* TIER 5: SerpAPI
Tier5(url, acc) ==
    IF IsComplete(acc.result) THEN {acc}
    ELSE IF acc.resolver.has_serpapi
    THEN {AfterTier(acc, try_serpapi(url, resp)) : resp \in Responses}
    ELSE {acc}

NoResponse == [kind |-> "none", status |-> 0, entries |-> <<>>]

\* resolve(url): every way the call can go, one for each answer of each
\* provider it reaches
ResolveOutcomes(url) ==
    LET keywords == extract_keywords_from_url(url)
        start == [result |-> NoMetadata, sent |-> <<>>, logged |-> <<>>,
                  resolver |-> check_daily_reset(resolver), rss |-> NoResponse]
        t1 == Tier1(url, start)
        t2 == UNION {Tier2(url, a) : a \in t1}
        t3 == UNION {Tier3(url, a) : a \in t2}
        t5 == UNION {Tier5(url, a) : a \in t3}
    IN  IF keywords = <<>> THEN {[start EXCEPT !.result = EmptyMetadata]}
        ELSE {IF IsComplete(a.result) THEN a ELSE [a EXCEPT !.result = EmptyMetadata] :
                a \in t5}

MaxDay == 2

\* how many of the requests in sent went to provider
RECURSIVE CountSent(_, _)
CountSent(sent, provider) ==
    IF sent = <<>> THEN 0
    ELSE (IF Head(sent) = provider THEN 1 ELSE 0) + CountSent(Tail(sent), provider)

NoneSent == [thenewsapi |-> 0, newsdata |-> 0]

NoTrace == [op |-> "none", url |-> <<>>, keywords |-> <<>>, rss |-> NoResponse,
            sent |-> <<>>, logged |-> <<>>, result |-> NoMetadata]

notWf == <<libVars, raceVars, batchVars, trVars, callerVars, keyVars, urlVars>>

WfInit ==
    /\ today = 1
    /\ \E k \in BOOLEAN : resolver = NewResolver(k, TRUE, TRUE)
    /\ wfTrace = NoTrace
    /\ sentToday = NoneSent

Resolve(url) ==
    \E o \in ResolveOutcomes(url) :
        /\ resolver' = o.resolver
        /\ wfTrace' = [op |-> "resolve", url |-> url,
                       keywords |-> extract_keywords_from_url(url), rss |-> o.rss,
                       sent |-> o.sent, logged |-> o.logged, result |-> o.result]
        /\ sentToday' = [p \in DOMAIN sentToday |->
                            sentToday[p] + CountSent(o.sent, p)]
        /\ UNCHANGED <<today, notWf, lateVars>>

\* midnight passes
NextDay ==
    /\ today < MaxDay
    /\ today' = today + 1
    /\ sentToday' = NoneSent
    /\ UNCHANGED <<resolver, wfTrace, notWf, lateVars>>

WaterfallNext ==
    \/ \E url \in Urls : Resolve(url)
    \/ NextDay

WaterfallInit == LibInit /\ RaceIdle /\ WfInit /\ BatchIdle /\ TrIdle /\ KeysIdle /\ UrlIdle /\ LateIdle

SpecWaterfall == WaterfallInit /\ [][WaterfallNext]_vars

-----------------------------------------------------------------------------
(* The parallel batch lookup: EndnoteToAuthorDateProcessor._lookup_all_citations *)

MaxCitations == 3

\* ThreadPoolExecutor(max_workers=5)
max_workers == 5

Texts == {"x", "y"}

\* CitationMatch.components = None
NoComponents == [query |-> "None", minimum |-> FALSE]

\* what get_citation(citation.original_text, self.style) can do inside
\* lookup_single: raise, return no components, or return the components it
\* resolved for that text, with or without has_minimum_data()
LookupResults(text) ==
    {[raises |-> TRUE, components |-> NoComponents],
     [raises |-> FALSE, components |-> NoComponents]} \cup
    {[raises |-> FALSE, components |-> [query |-> text, minimum |-> m]] :
        m \in BOOLEAN}

\* routerMode "finds": a run in which get_citation resolves every text and
\* the formatting succeeds; "any": every behaviour
LookupResultsIn(mode, text) ==
    IF mode = "finds"
    THEN {[raises |-> FALSE, components |-> [query |-> text, minimum |-> TRUE]]}
    ELSE LookupResults(text)

FormatRaisesIn(mode) == IF mode = "finds" THEN {FALSE} ELSE BOOLEAN

\* CitationMatch(source, original_text) as the extraction leaves it
NewCitationMatch(text) ==
    [original_text |-> text, components |-> NoComponents, parenthetical |-> FALSE]

\* an except clause that writes the error text into the parenthetical
lookup_single_marking(citation, r, format_raises) ==
    IF r.raises THEN [citation EXCEPT !.parenthetical = TRUE]
    ELSE IF r.components # NoComponents /\ r.components.minimum
    THEN [citation EXCEPT !.components = r.components,
                          !.parenthetical = ~format_raises]
    ELSE citation

\* lookup_single(citation): the citation it returns, which is the object it
\* was given.  format_raises: _format_parenthetical raises, after the
\* components were assigned.
lookup_single(citation, r, format_raises) ==
    IF r.raises THEN citation
    ELSE IF r.components # NoComponents /\ r.components.minimum
    THEN [citation EXCEPT !.components = r.components,
                          !.parenthetical = ~format_raises]
    ELSE citation

\* the results put back in the order the tasks finish
StoreInPlaceByCompletion(cs, i, c) ==
    [cs EXCEPT ![Len(doneOrder) + 1] = c]

\* the task of citation i changes the object it was given, which is element
\* i of self.citations; the list itself is never reassigned
StoreInPlace(cs, i, c) == [cs EXCEPT ![i] = c]

Running == {i \in 1..Len(futs) : futs[i] = "running"}
\* the tasks that occupy a worker thread: a lookup that never returns keeps its thread
Busy == {i \in 1..Len(futs) : futs[i] \in {"running", "hung"}}
Queued == {i \in 1..Len(futs) : futs[i] = "queued"}

RECURSIVE BuildComponentsMap(_, _)
BuildComponentsMap(cs, map) ==
    IF cs = <<>> THEN map
    ELSE BuildComponentsMap(
            Tail(cs),
            IF Head(cs).components # NoComponents
            THEN [t \in DOMAIN map \cup {Head(cs).original_text} |->
                     IF t = Head(cs).original_text THEN Head(cs).components
                     ELSE map[t]]
            ELSE map)

notBatch == <<libVars, raceVars, wfVars, trVars, callerVars, keyVars, urlVars, lateVars>>

\* _lookup_all_citations is entered with the citations the extraction found
BatchInit ==
    /\ bpc = "submit"
    /\ \E n \in 0..MaxCitations : batchInput \in [1..n -> Texts]
    /\ cits = [i \in 1..Len(batchInput) |-> NewCitationMatch(batchInput[i])]
    /\ futs = <<>>
    /\ doneOrder = <<>>
    /\ collected = 0
    /\ components_map = <<>>
    /\ routerMode = "any"

\* executor.submit(lookup_single, c) for the next citation of self.citations
Submit ==
    /\ bpc = "submit"
    /\ Len(futs) < Len(cits)
    /\ futs' = Append(futs, "queued")
    /\ UNCHANGED <<routerMode, bpc, batchInput, cits, doneOrder, collected, components_map, notBatch>>

\* the dict of futures is complete: the as_completed loop begins
AllSubmitted ==
    /\ bpc = "submit"
    /\ Len(futs) = Len(cits)
    /\ bpc' = "wait"
    /\ UNCHANGED <<routerMode, batchInput, cits, futs, doneOrder, collected, components_map, notBatch>>

\* no limit on the threads: every queued task starts at once
StartTaskUnbounded(i) ==
    /\ i \in Queued
    /\ \A j \in Queued : i <= j
    /\ futs' = [futs EXCEPT ![i] = "running"]
    /\ UNCHANGED <<routerMode, bpc, batchInput, cits, doneOrder, collected, components_map, notBatch>>

\* a free worker thread takes the oldest queued task
StartTask(i) ==
    /\ i \in Queued
    /\ \A j \in Queued : i <= j
    /\ Cardinality(Busy) < max_workers
    /\ futs' = [futs EXCEPT ![i] = "running"]
    /\ UNCHANGED <<routerMode, bpc, batchInput, cits, doneOrder, collected, components_map, notBatch>>

\* lookup_single(self.citations[i]) runs to its return
FinishTask(i) ==
    /\ i \in Running
    /\ \E r \in LookupResultsIn(routerMode, cits[i].original_text),
          format_raises \in FormatRaisesIn(routerMode) :
          /\ cits' = StoreInPlace(cits, i, lookup_single(cits[i], r, format_raises))
          /\ doneOrder' = Append(doneOrder, [index |-> i, got |-> r])
    /\ futs' = [futs EXCEPT ![i] = "done"]
    /\ UNCHANGED <<routerMode, bpc, batchInput, collected, components_map, notBatch>>

\* for future in as_completed(futures): future.result()
Collect ==
    /\ bpc = "wait"
    /\ collected < Len(doneOrder)
    /\ collected' = collected + 1
    /\ UNCHANGED <<routerMode, bpc, batchInput, cits, futs, doneOrder, components_map, notBatch>>

\* every future was taken: the with block is left
ExitPool ==
    /\ bpc = "wait"
    /\ collected = Len(cits)
    /\ bpc' = "map"
    /\ UNCHANGED <<routerMode, batchInput, cits, futs, doneOrder, collected, components_map, notBatch>>

\* for citation in self.citations: self.components_map[...] = citation.components
BuildMap ==
    /\ bpc = "map"
    /\ components_map' = BuildComponentsMap(cits, <<>>)
    /\ bpc' = "done"
    /\ UNCHANGED <<routerMode, batchInput, cits, futs, doneOrder, collected, notBatch>>

BatchNext ==
    \/ Submit
    \/ AllSubmitted
    \/ \E i \in 1..Len(cits) : StartTask(i)
    \/ \E i \in 1..Len(cits) : FinishTask(i)
    \/ Collect
    \/ ExitPool
    \/ BuildMap

BatchSpecInit == LibInit /\ RaceIdle /\ WfIdle /\ BatchInit /\ TrIdle /\ KeysIdle /\ UrlIdle /\ LateIdle

SpecBatch == BatchSpecInit /\ [][BatchNext]_vars

\* get_citation(...) of task i blocks and never returns
Hang(i) ==
    /\ i \in Running
    /\ routerMode = "any"
    /\ futs' = [futs EXCEPT ![i] = "hung"]
    /\ UNCHANGED <<routerMode, bpc, batchInput, cits, doneOrder, collected, components_map, notBatch>>

BatchHangNext ==
    \/ BatchNext
    \/ \E i \in 1..Len(cits) : Hang(i)

\* the batch lookup with lookups that may never return
SpecBatchHang == BatchSpecInit /\ [][BatchHangNext]_vars

PoolCitations == 6

\* a document with more citations than the pool has threads
PoolInit ==
    /\ bpc = "submit"
    /\ batchInput = [i \in 1..PoolCitations |-> "x"]
    /\ cits = [i \in 1..Len(batchInput) |-> NewCitationMatch(batchInput[i])]
    /\ futs = <<>>
    /\ doneOrder = <<>>
    /\ collected = 0
    /\ components_map = <<>>
    /\ routerMode = "finds"

PoolSpecInit == LibInit /\ RaceIdle /\ WfIdle /\ PoolInit /\ TrIdle /\ KeysIdle /\ UrlIdle /\ LateIdle

SpecPool == PoolSpecInit /\ [][BatchNext]_vars

-----------------------------------------------------------------------------
(* The transport: SearchEngine._make_request in engines/base.py *)

MAX_RETRIES == 2
RETRY_DELAY_BASE == 2

RECURSIVE Pow2(_)
Pow2(n) == IF n = 0 THEN 1 ELSE 2 * Pow2(n - 1)

\* response.headers.get('Retry-After'): absent (None), or a string that is
\* empty, is no integer (text, an HTTP date), or spells the integer n
NoHeader == [kind |-> "absent", n |-> 0]
RetryAfterHeaders ==
    {NoHeader, [kind |-> "empty", n |-> 0], [kind |-> "text", n |-> 0]} \cup
    {[kind |-> "int", n |-> n] : n \in {-1, 0, 3}}

\* what one session.get / session.post can do: raise requests.Timeout, raise
\* another requests.RequestException, or return a response
RateLimited == {[kind |-> "http", status |-> 429, retry_after |-> h] :
                  h \in RetryAfterHeaders}
Answers ==
    {[kind |-> k, status |-> 0, retry_after |-> NoHeader] :
        k \in {"timeout", "request_exception"}} \cup
    {[kind |-> "http", status |-> s, retry_after |-> NoHeader] :
        s \in {200, 404, 500}} \cup
    RateLimited

AnswersOf(mode) == IF mode = "always429" THEN RateLimited ELSE Answers

\* the Retry-After header never read: exponential backoff always
RetryDelayNoHeader(retry_after, retry_count) ==
    RETRY_DELAY_BASE * Pow2(retry_count)

\* no doubling: the base delay before every retry that has no usable header
RetryDelayFlat(retry_after, retry_count) ==
    IF retry_after.kind = "int" THEN retry_after.n ELSE RETRY_DELAY_BASE

\* the delay computed at lines 131-138
RetryDelay(retry_after, retry_count) ==
    IF retry_after.kind \in {"absent", "empty"}
    THEN RETRY_DELAY_BASE * Pow2(retry_count)
    ELSE IF retry_after.kind = "int" THEN retry_after.n
    ELSE RETRY_DELAY_BASE * Pow2(retry_count)

\* if retry_count < self.MAX_RETRIES
MayRetry(retry_count) == retry_count < MAX_RETRIES

\* response.raise_for_status() raises HTTPError for 4xx and 5xx
RaiseForStatusRaises(status) == status >= 400

NoAnswer == [kind |-> "none", status |-> 0, retry_after |-> NoHeader]

\* a call: where it is, its retry_count, the requests sent, the last answer,
\* the delay computed from it, the sleeps done and the outcome
IdleCall == [pc |-> "idle", retry_count |-> 0, sent |-> 0, last |-> NoAnswer,
             delay |-> 0, slept |-> <<>>, result |-> "none"]

notTr == <<libVars, raceVars, wfVars, batchVars, callerVars, keyVars, urlVars, lateVars>>

TrInit ==
    /\ providerMode \in {"any", "always429"}
    /\ tr = IdleCall
    /\ CallersIdle

\* _make_request(url, params) is called, retry_count = 0
StartRequest ==
    /\ tr.pc \in {"idle", "returned", "raised"}
    /\ tr' = [IdleCall EXCEPT !.pc = "send"]
    /\ UNCHANGED <<providerMode, notTr>>

\* one request of the call c is answered by a: the handling of the answer, up
\* to the sleep or the return
AfterAnswer(c, a) ==
    LET sent == [c EXCEPT !.sent = @ + 1, !.last = a]
    IN  IF a.kind \in {"timeout", "request_exception"}
        THEN [sent EXCEPT !.pc = "returned", !.result = "None"]
        ELSE IF a.status = 429
        THEN IF MayRetry(c.retry_count)
             THEN [sent EXCEPT !.pc = "sleep",
                               !.delay = RetryDelay(a.retry_after, c.retry_count)]
             ELSE [sent EXCEPT !.pc = "returned", !.result = "None"]
        ELSE IF RaiseForStatusRaises(a.status)
        THEN [sent EXCEPT !.pc = "returned", !.result = "None"]
        ELSE [sent EXCEPT !.pc = "returned", !.result = "response"]

\* time.sleep(delay), which raises ValueError for a negative delay; no except
\* clause of _make_request catches it.  Then the recursive call.
AfterSleep(c) ==
    IF c.delay < 0
    THEN [c EXCEPT !.pc = "raised", !.result = "ValueError"]
    ELSE [c EXCEPT !.pc = "send", !.slept = Append(@, c.delay),
                   !.retry_count = @ + 1]

\* the request is sent and its outcome handled
SendRequest(a) ==
    /\ tr.pc = "send"
    /\ a \in AnswersOf(providerMode)
    /\ tr' = AfterAnswer(tr, a)
    /\ UNCHANGED <<providerMode, notTr>>

\* the call waits out its delay
Sleep ==
    /\ tr.pc = "sleep"
    /\ tr' = AfterSleep(tr)
    /\ UNCHANGED <<providerMode, notTr>>

TransportNext ==
    \/ StartRequest
    \/ \E a \in Answers : SendRequest(a)
    \/ Sleep

TransportInit == LibInit /\ RaceIdle /\ WfIdle /\ BatchIdle /\ TrInit /\ KeysIdle /\ UrlIdle /\ LateIdle

SpecTransport == TransportInit /\ [][TransportNext]_vars

-----------------------------------------------------------------------------
(* MultiAttemptEngine.search in engines/base.py: the attempts of one engine, *)
(* each one a _make_request call to the engine's provider                   *)

MaxAttempts == 2

\* what parse_response(response, query) can give: it raises, returns None,
\* a result without has_minimum_data(), or a usable result
ParseResults == {"raises", "None", "incomplete", "found"}

IdleSearch == [pc |-> "idle", i |-> 0, n |-> 0, log |-> <<>>, result |-> "none"]

SearchInit ==
    /\ providerMode = "any"
    /\ tr = IdleCall
    /\ search = IdleSearch
    /\ calls = <<>>

\* search(query) is called; get_search_attempts(query) returns n attempts
BeginSearch(n) ==
    /\ search.pc \in {"idle", "returned", "raised"}
    /\ search' = [IdleSearch EXCEPT !.pc = "loop", !.i = 1, !.n = n]
    /\ tr' = IdleCall
    /\ UNCHANGED <<providerMode, calls, libVars, raceVars, wfVars, batchVars, keyVars, urlVars, lateVars>>

\* response = self._make_request(url, params=params) for attempt i
CallMakeRequest ==
    /\ search.pc = "loop"
    /\ search.i <= search.n
    /\ search' = [search EXCEPT !.pc = "request"]
    /\ tr' = [IdleCall EXCEPT !.pc = "send"]
    /\ UNCHANGED <<providerMode, calls, libVars, raceVars, wfVars, batchVars, keyVars, urlVars, lateVars>>

\* what the loop does with the response of attempt i; the log keeps the last
\* answer of each call and the number of requests it sent
AfterAttempt(s, call, parsed) ==
    LET logged == [s EXCEPT !.log = Append(@, [last |-> call.last, sent |-> call.sent,
                                                parsed |-> parsed])]
    IN  IF call.pc = "raised" THEN [logged EXCEPT !.pc = "raised", !.result = "raised"]
        ELSE IF call.result = "response" /\ parsed = "raises"
        THEN [logged EXCEPT !.pc = "raised", !.result = "raised"]
        ELSE IF call.result = "response" /\ parsed = "found"
        THEN [logged EXCEPT !.pc = "returned", !.result = "result"]
        ELSE [logged EXCEPT !.pc = "loop", !.i = @ + 1]

\* _make_request has returned or raised: "if response: ... return result"
AttemptEnds(parsed) ==
    /\ search.pc = "request"
    /\ tr.pc \in {"returned", "raised"}
    /\ (tr.pc = "raised" \/ tr.result # "response") => parsed = "None"
    /\ search' = AfterAttempt(search, tr, parsed)
    /\ UNCHANGED <<providerMode, tr, calls, libVars, raceVars, wfVars, batchVars, keyVars, urlVars, lateVars>>

\* the attempts are used up: return None
NoMoreAttempts ==
    /\ search.pc = "loop"
    /\ search.i > search.n
    /\ search' = [search EXCEPT !.pc = "returned", !.result = "None"]
    /\ UNCHANGED <<providerMode, tr, calls, libVars, raceVars, wfVars, batchVars, keyVars, urlVars, lateVars>>

SearchNext ==
    \/ \E n \in 0..MaxAttempts : BeginSearch(n)
    \/ CallMakeRequest
    \/ \E a \in Answers : SendRequest(a)
    \/ Sleep
    \/ \E parsed \in ParseResults : AttemptEnds(parsed)
    \/ NoMoreAttempts

SearchSpecInit == LibInit /\ RaceIdle /\ WfIdle /\ BatchIdle /\ SearchInit /\ KeysIdle /\ UrlIdle /\ LateIdle

SpecSearch == SearchSpecInit /\ [][SearchNext]_vars

-----------------------------------------------------------------------------
(* Pool workers calling _make_request of one engine at the same time: the   *)
(* threads of _lookup_all_citations share the provider, and each runs its   *)
(* own call                                                                 *)

NumCallers == 2
Callers == 1..NumCallers

ThrottleInit ==
    /\ providerMode = "any"
    /\ tr = IdleCall
    /\ search = <<>>
    /\ calls = [w \in Callers |-> IdleCall]

\* worker w calls _make_request(url, params); nothing is acquired first
CallerStart(w) ==
    /\ calls[w].pc \in {"idle", "returned", "raised"}
    /\ calls' = [calls EXCEPT ![w] = [IdleCall EXCEPT !.pc = "send"]]
    /\ UNCHANGED <<providerMode, tr, search, libVars, raceVars, wfVars, batchVars, keyVars, urlVars, lateVars>>

\* worker w sends its request: session.get / session.post, whatever the
\* other workers' calls are doing
CallerSend(w, a) ==
    /\ calls[w].pc = "send"
    /\ calls' = [calls EXCEPT ![w] = AfterAnswer(calls[w], a)]
    /\ UNCHANGED <<providerMode, tr, search, libVars, raceVars, wfVars, batchVars, keyVars, urlVars, lateVars>>

\* worker w's time.sleep(delay) ends
CallerSleep(w) ==
    /\ calls[w].pc = "sleep"
    /\ calls' = [calls EXCEPT ![w] = AfterSleep(calls[w])]
    /\ UNCHANGED <<providerMode, tr, search, libVars, raceVars, wfVars, batchVars, keyVars, urlVars, lateVars>>

ThrottleNext ==
    \E w \in Callers :
        \/ CallerStart(w)
        \/ \E a \in Answers : CallerSend(w, a)
        \/ CallerSleep(w)

ThrottleSpecInit == LibInit /\ RaceIdle /\ WfIdle /\ BatchIdle /\ ThrottleInit /\ KeysIdle /\ UrlIdle /\ LateIdle

SpecThrottle == ThrottleSpecInit /\ [][ThrottleNext]_vars

-----------------------------------------------------------------------------
(* The key functions of citation_library.py called on their own             *)

MaxAuthors == 3

\* author names as callers pass them: empty, plain, capitalised, with
\* punctuation, of two letters
KeyNames == { <<>>, <<"a">>, <<"A", "'">>, <<"b">>, <<"b", "a">> }
KeyYears == { <<"1">>, <<"2">> }

\* lists of up to n names
RECURSIVE NameLists(_)
NameLists(n) ==
    IF n = 0 THEN {<<>>}
    ELSE LET shorter == NameLists(n - 1)
         IN  shorter \cup {Append(l, x) : l \in shorter, x \in KeyNames}

AuthorLists == NameLists(MaxAuthors)

\* the calls of generate_alias_keys: an author, up to two more, the flag
KeyRequests ==
    {[author |-> a, year |-> y, second_author |-> s2, third_author |-> s3,
      is_et_al |-> e] :
        a \in KeyNames, y \in KeyYears, s2 \in KeyNames, s3 \in KeyNames,
        e \in BOOLEAN}

NoKeyCall == [op |-> "none", authors |-> <<>>, req |-> NoReq, year |-> <<>>,
              keys |-> <<>>]

KeysInit == keyCall = NoKeyCall

notKeys == <<libVars, raceVars, wfVars, batchVars, trVars, callerVars, urlVars, lateVars>>

\* generate_lookup_key(authors, year) is called
CallLookupKey(authors, year) ==
    /\ keyCall' = [NoKeyCall EXCEPT !.op = "generate_lookup_key",
                                    !.authors = authors, !.year = year,
                                    !.keys = <<generate_lookup_key(authors, year)>>]
    /\ UNCHANGED notKeys

\* generate_alias_keys(author, year, second_author, third_author, is_et_al)
CallAliasKeys(req) ==
    /\ keyCall' = [NoKeyCall EXCEPT !.op = "generate_alias_keys", !.req = req,
                                    !.year = req.year,
                                    !.keys = generate_alias_keys(req)]
    /\ UNCHANGED notKeys

KeysNext ==
    \/ \E authors \in AuthorLists, year \in KeyYears : CallLookupKey(authors, year)
    \/ \E req \in KeyRequests : CallAliasKeys(req)

KeysSpecInit == LibInit /\ RaceIdle /\ WfIdle /\ BatchIdle /\ TrIdle /\ KeysInit /\ UrlIdle /\ LateIdle

SpecKeys == KeysSpecInit /\ [][KeysNext]_vars

-----------------------------------------------------------------------------
(* SmartURLRouter: engines/smart_url_router.py *)

\* one domain of each kind: with an institutional author, in NEWS_DOMAINS and
\* in the set of _is_news_domain, in NEWS_DOMAINS only, in neither
\* a domain is the sequence of its labels: cdc.gov is <<"cdc", "gov">>
INSTITUTIONAL_AUTHORS == {<<"cdc", "gov">>}
NEWS_DOMAINS == {<<"nytimes", "com">>, <<"forbes", "com">>}
news_domains == {<<"nytimes", "com">>}
RouterUrls ==
    {[domain |-> d, keywords |-> k] :
        d \in {<<"cdc", "gov">>, <<"data", "cdc", "gov">>, <<"nytimes", "com">>,
               <<"forbes", "com">>, <<"blogs", "nytimes", "com">>,
               <<"example", "com">>},
        k \in BOOLEAN}

\* _get_institutional_author(domain): the direct match, then the parent
\* domains '.'.join(parts[i:]) for i in range(len(parts) - 1)
get_institutional_author(domain) ==
    IF domain \in INSTITUTIONAL_AUTHORS THEN "Institution"
    ELSE IF \E i \in 0..(Len(domain) - 2) :
                SubSeq(domain, i + 1, Len(domain)) \in INSTITUTIONAL_AUTHORS
    THEN "Institution"
    ELSE "None"

\* what requests.get on TheNewsAPI or NewsData.io can do: raise, answer 500,
\* answer 200 with no article or with one
Articles ==
    {<<>>} \cup {<<[title |-> "T", authors |-> a, date |-> "D"]>> :
                   a \in {<<>>, <<"Ann Lee">>}}
ArticleResponses ==
    {[kind |-> "raise", status |-> 0, articles |-> <<>>],
     [kind |-> "http", status |-> 500, articles |-> <<>>]} \cup
    {[kind |-> "http", status |-> 200, articles |-> a] : a \in Articles}

\* what requests.get on SerpAPI can do; a result has a title or none, the
\* authors of source.authors or none, a snippet and a date or none
SearchResults ==
    {<<>>} \cup {<<[title |-> t, source_authors |-> a, snippet |-> sn, date |-> d]>> :
                   t \in {"", "T"}, a \in {<<>>, <<"Ann Lee">>},
                   sn \in {"", "By Ann Lee"}, d \in Dates}
SearchResponses ==
    {[kind |-> "raise", status |-> 0, results |-> <<>>],
     [kind |-> "http", status |-> 500, results |-> <<>>]} \cup
    {[kind |-> "http", status |-> 200, results |-> r] : r \in SearchResults}

\* what lookup_newspaper_url(url, verify=False) can do: raise, return None,
\* return a result with or without authors
AiResults ==
    {[kind |-> "raise", authors |-> <<>>, date |-> ""],
     [kind |-> "None", authors |-> <<>>, date |-> ""],
     [kind |-> "result", authors |-> <<>>, date |-> "D"],
     [kind |-> "result", authors |-> <<"Al Bot">>, date |-> "D"]}

\* _empty_metadata(url)
EmptyUrlMetadata ==
    [title |-> "", authors |-> <<>>, date |-> "", method_used |-> "none"]

\* _institutional_metadata(url, author): the institution as author, no title
InstitutionalMetadata ==
    [title |-> "", authors |-> <<"Institution">>, date |-> "",
     method_used |-> "institutional_author"]

\* metadata.method_used += '+ai_author'
PlusAiAuthor(method) ==
    CASE method = "thenewsapi" -> "thenewsapi+ai_author"
      [] method = "newsdata" -> "newsdata+ai_author"
      [] method = "serpapi_news" -> "serpapi_news+ai_author"
      [] OTHER -> "serpapi+ai_author"

\* if metadata.title and not metadata.authors and AI_AUTHOR_FALLBACK
AiAuthorWanted(metadata) ==
    metadata.title # "" /\ metadata.authors = <<>> /\ urlRouter.ai_author_fallback

\* the AI author fallback of the three _search methods; only the SerpAPI
\* one also takes the date
AiAuthorFallback(metadata, ai, takes_date) ==
    IF ~AiAuthorWanted(metadata) THEN metadata
    ELSE IF ai.kind = "result" /\ ai.authors # <<>>
    THEN [metadata EXCEPT
            !.authors = ai.authors,
            !.method_used = PlusAiAuthor(@),
            !.date = IF takes_date /\ @ = "" /\ ai.date # "" THEN ai.date ELSE @]
    ELSE metadata

\* what a _search method has done: the metadata it returns, the requests it
\* sent, the calls log_api_call recorded, the record the provider gave and
\* whether lookup_newspaper_url was called
SearchFailed(provider) ==
    [result |-> EmptyUrlMetadata, sent |-> <<provider>>, logged |-> <<>>,
     records |-> <<>>, ai_called |-> FALSE]

\* the body shared by _search_thenewsapi and _search_newsdata
SearchArticles(provider, kwargs, resp, ai) ==
    IF resp.kind = "raise" THEN SearchFailed(provider)
    ELSE IF LogApiCallRaises(kwargs) THEN SearchFailed(provider)
    ELSE IF resp.status # 200 \/ resp.articles = <<>>
    THEN [SearchFailed(provider) EXCEPT !.logged = <<provider>>]
    ELSE LET article == resp.articles[1]
             metadata == [title |-> article.title, authors |-> article.authors,
                          date |-> article.date, method_used |-> provider]
         IN  [result |-> AiAuthorFallback(metadata, ai, FALSE),
              sent |-> <<provider>>, logged |-> <<provider>>,
              records |-> <<metadata>>,
              ai_called |-> AiAuthorWanted(metadata)]

\* log_api_call('thenewsapi', query=url, function='url_metadata', cost=0.0)
search_thenewsapi(url, resp, ai) ==
    SearchArticles("thenewsapi", {"provider", "query", "function", "cost"}, resp, ai)

\* log_api_call('newsdata', query=url, function='url_metadata', cost=0.0)
search_newsdata(url, resp, ai) ==
    SearchArticles("newsdata", {"provider", "query", "function", "cost"}, resp, ai)

\* _search_via_serpapi: the first request, the keyword request of a search
\* that was not a news search and found nothing, the metadata of the first
\* result and the AI author fallback
search_via_serpapi(url, resp, resp2, ai) ==
    LET is_news == url.domain \in news_domains
        kwargs == {"provider", "query", "function"}
        again == /\ resp.kind = "http" /\ resp.status = 200
                 /\ resp.results = <<>> /\ ~is_news /\ url.keywords
        requests == IF again THEN <<"serpapi", "serpapi">> ELSE <<"serpapi">>
        failed == [SearchFailed("serpapi") EXCEPT !.sent = requests]
        results == IF again
                   THEN IF resp2.kind = "http" /\ resp2.status = 200
                        THEN resp2.results ELSE <<>>
                   ELSE resp.results
    IN  IF resp.kind = "raise" \/ LogApiCallRaises(kwargs) THEN failed
        ELSE IF resp.status # 200 THEN [failed EXCEPT !.logged = <<"serpapi">>]
        ELSE IF again /\ resp2.kind = "raise"
        THEN [failed EXCEPT !.logged = <<"serpapi">>]
        ELSE IF results = <<>> THEN [failed EXCEPT !.logged = requests]
        ELSE LET result == results[1]
                 authors == IF result.source_authors # <<>>
                            THEN result.source_authors
                            ELSE extract_authors_from_snippet(result.snippet)
                 metadata == [title |-> result.title, authors |-> authors,
                              date |-> result.date,
                              method_used |-> IF is_news THEN "serpapi_news"
                                              ELSE "serpapi"]
             IN  [result |-> AiAuthorFallback(metadata, ai, TRUE),
                  sent |-> requests, logged |-> requests,
                  records |-> <<metadata>>,
                  ai_called |-> AiAuthorWanted(metadata)]

\* Metadata.is_complete(): bool(self.title); False for the empty metadata
UrlIsComplete(m) == m.method_used # "none" /\ m.title # ""

\* one _search method has run after the earlier ones
AfterSearch(acc, t) ==
    [result |-> t.result, sent |-> acc.sent \o t.sent,
     logged |-> acc.logged \o t.logged, records |-> acc.records \o t.records,
     ai_called |-> acc.ai_called \/ t.ai_called]

\* the else branch of resolve sent to the paid search as well
ResolveUrlOutcomesSearchAll(url) ==
    LET start == [result |-> EmptyUrlMetadata, sent |-> <<>>, logged |-> <<>>,
                  records |-> <<>>, ai_called |-> FALSE]
    IN  IF urlRouter.has_serpapi
        THEN {AfterSearch(start, search_via_serpapi(url, resp, resp2, ai)) :
                resp \in SearchResponses, resp2 \in SearchResponses,
                ai \in AiResults}
        ELSE {start}

\* resolve(url): every way the call can go
ResolveUrlOutcomes(url) ==
    LET start == [result |-> EmptyUrlMetadata, sent |-> <<>>, logged |-> <<>>,
                  records |-> <<>>, ai_called |-> FALSE]
        t1 == IF urlRouter.has_thenewsapi
              THEN {AfterSearch(start, search_thenewsapi(url, resp, ai)) :
                      resp \in ArticleResponses, ai \in AiResults}
              ELSE {start}
        t2 == UNION {IF UrlIsComplete(a.result) THEN {a}
                     ELSE IF urlRouter.has_newsdata
                     THEN {AfterSearch(a, search_newsdata(url, resp, ai)) :
                             resp \in ArticleResponses, ai \in AiResults}
                     ELSE {a} : a \in t1}
        t3 == UNION {IF UrlIsComplete(a.result) THEN {a}
                     ELSE IF urlRouter.has_serpapi
                     THEN {AfterSearch(a, search_via_serpapi(url, resp, resp2, ai)) :
                             resp \in SearchResponses, resp2 \in SearchResponses,
                             ai \in AiResults}
                     ELSE {[a EXCEPT !.result = EmptyUrlMetadata]} : a \in t2}
    IN  IF get_institutional_author(url.domain) # "None"
        THEN {[start EXCEPT !.result = InstitutionalMetadata]}
        ELSE IF url.domain \in NEWS_DOMAINS THEN t3
        ELSE {start}

NoUrlTrace == [op |-> "none", url |-> [domain |-> <<>>, keywords |-> FALSE],
               sent |-> <<>>, logged |-> <<>>, records |-> <<>>,
               ai_called |-> FALSE, result |-> EmptyUrlMetadata]

\* __init__: bool(KEY) for each key of config; AI_AUTHOR_FALLBACK is whether
\* engines.ai_lookup could be imported
UrlInit ==
    /\ urlRouter \in [has_thenewsapi : BOOLEAN, has_newsdata : BOOLEAN,
                       has_serpapi : BOOLEAN, ai_author_fallback : BOOLEAN]
    /\ urlTrace = NoUrlTrace

UrlResolve(url) ==
    \E o \in ResolveUrlOutcomes(url) :
        /\ urlTrace' = [op |-> "resolve", url |-> url, sent |-> o.sent,
                        logged |-> o.logged, records |-> o.records,
                        ai_called |-> o.ai_called, result |-> o.result]
        /\ UNCHANGED <<urlRouter, libVars, raceVars, wfVars, batchVars, trVars,
                       callerVars, keyVars, lateVars>>

UrlNext == \E url \in RouterUrls : UrlResolve(url)

UrlSpecInit == LibInit /\ RaceIdle /\ WfIdle /\ BatchIdle /\ TrIdle /\ KeysIdle /\ UrlInit /\ LateIdle

SpecUrl == UrlSpecInit /\ [][UrlNext]_vars

-----------------------------------------------------------------------------
(* resolve() of one WaterfallNewsResolver called by several threads at once: *)
(* the guards and the counters of the two rate-limited tiers.  A statement   *)
(* "self.x += 1" is a read of self.x and a later write of the value read + 1 *)

NumResolvers == 2
ResolverThreads == 1..NumResolvers

\* the URLs the threads resolve: one whose path gives no keyword, one with
ResolveUrls == {<<<<"u", "s">>>>, <<<<"e", "c", "o", "n">>>>}

IdleResolve == [pc |-> "idle", url |-> <<>>, resp |-> NoResponse, loaded |-> 0,
                added |-> NoneSent, result |-> "none"]

\* get_stats()
get_stats(r) ==
    [thenewsapi_used_today |-> r.thenewsapi_calls_today,
     newsdata_used_today |-> r.newsdata_calls_today,
     thenewsapi_remaining |-> TheNewsApiDailyLimit - r.thenewsapi_calls_today,
     newsdata_remaining |-> NewsDataDailyLimit - r.newsdata_calls_today]

\* the thread returns from resolve()
Returned(l, kind) ==
    [l EXCEPT !.pc = "done", !.url = <<>>, !.resp = NoResponse, !.loaded = 0,
              !.result = kind]

\* One step of resolve() by a thread at position l on the resolver r: the
\* set of [l, r, sent], sent being the provider a request went to, if any.
ResolveStep(l, r) ==
    LET to(pc) == {[l |-> [l EXCEPT !.pc = pc], r |-> r, sent |-> "none"]}
        done(provider, t) ==
            [l |-> IF IsComplete(t.result) THEN Returned(l, "complete")
                   ELSE [l EXCEPT !.pc = IF provider = "google_news_rss"
                                         THEN "guard2" ELSE "empty"],
             r |-> r, sent |-> provider]
    IN  CASE l.pc = "keywords" ->
               IF extract_keywords_from_url(l.url) = <<>>
               THEN {[l |-> Returned(l, "empty"), r |-> r, sent |-> "none"]}
               ELSE to("tier1")
          [] l.pc = "tier1" ->
               {done("google_news_rss", try_google_news_rss(l.url, resp)) :
                  resp \in Responses}
          [] l.pc = "guard2" ->
               IF r.has_thenewsapi /\ r.thenewsapi_calls_today < TheNewsApiDailyLimit
               THEN to("get2") ELSE to("guard3")
          [] l.pc = "get2" ->
               {[l |-> IF resp.kind = "raise" THEN [l EXCEPT !.pc = "guard3"]
                       ELSE [l EXCEPT !.pc = "load2", !.resp = resp],
                 r |-> r, sent |-> "thenewsapi"] : resp \in Responses}
          [] l.pc = "load2" ->
               {[l |-> [l EXCEPT !.pc = "store2", !.loaded = r.thenewsapi_calls_today],
                 r |-> r, sent |-> "none"]}
          [] l.pc = "store2" ->
               LET t == try_thenewsapi(l.url, l.resp)
                   counted == [l EXCEPT !.added.thenewsapi = @ + 1, !.loaded = 0,
                                        !.resp = NoResponse]
               IN  {[l |-> IF IsComplete(t.result) THEN Returned(counted, "complete")
                           ELSE [counted EXCEPT !.pc = "guard3"],
                     r |-> [r EXCEPT !.thenewsapi_calls_today = l.loaded + 1],
                     sent |-> "none"]}
          [] l.pc = "guard3" ->
               IF r.has_newsdata /\ r.newsdata_calls_today < NewsDataDailyLimit
               THEN to("get3") ELSE to("guard5")
          [] l.pc = "get3" ->
               {[l |-> IF resp.kind = "raise" THEN [l EXCEPT !.pc = "guard5"]
                       ELSE [l EXCEPT !.pc = "load3", !.resp = resp],
                 r |-> r, sent |-> "newsdata"] : resp \in Responses}
          [] l.pc = "load3" ->
               {[l |-> [l EXCEPT !.pc = "store3", !.loaded = r.newsdata_calls_today],
                 r |-> r, sent |-> "none"]}
          [] l.pc = "store3" ->
               LET t == try_newsdata(l.url, l.resp)
                   counted == [l EXCEPT !.added.newsdata = @ + 1, !.loaded = 0,
                                        !.resp = NoResponse]
               IN  {[l |-> IF IsComplete(t.result) THEN Returned(counted, "complete")
                           ELSE [counted EXCEPT !.pc = "guard5"],
                     r |-> [r EXCEPT !.newsdata_calls_today = l.loaded + 1],
                     sent |-> "none"]}
          [] l.pc = "guard5" ->
               IF r.has_serpapi THEN to("tier5") ELSE to("empty")
          [] l.pc = "tier5" ->
               {done("serpapi", try_serpapi(l.url, resp)) : resp \in Responses}
          [] OTHER -> \* "empty": return self._empty_metadata(url)
               {[l |-> Returned(l, "empty"), r |-> r, sent |-> "none"]}

ResolvePoolInit ==
    /\ today = 1
    /\ \E k \in BOOLEAN : resolver = NewResolver(k, TRUE, TRUE)
    /\ wfTrace = NoTrace
    /\ sentToday = NoneSent
    /\ resolving = [w \in ResolverThreads |-> IdleResolve]

\* a thread calls resolve(url): self._check_daily_reset()
BeginResolve(w, url) ==
    /\ resolving[w].pc \in {"idle", "done"}
    /\ resolving' = [resolving EXCEPT ![w] = [@ EXCEPT !.pc = "keywords", !.url = url,
                                                       !.result = "none"]]
    /\ resolver' = check_daily_reset(resolver)
    /\ UNCHANGED <<today, wfTrace, sentToday, notWf, costVars, logVars>>

\* the thread runs up to its next read or write of the shared resolver
StepResolve(w) ==
    /\ resolving[w].pc \notin {"idle", "done"}
    /\ \E o \in ResolveStep(resolving[w], resolver) :
          /\ resolving' = [resolving EXCEPT ![w] = o.l]
          /\ resolver' = o.r
          /\ sentToday' = IF o.sent \in DOMAIN sentToday
                          THEN [sentToday EXCEPT ![o.sent] = @ + 1] ELSE sentToday
    /\ UNCHANGED <<today, wfTrace, notWf, costVars, logVars>>

ResolvePoolNext ==
    \/ \E w \in ResolverThreads, url \in ResolveUrls : BeginResolve(w, url)
    \/ \E w \in ResolverThreads : StepResolve(w)

ResolvePoolSpecInit ==
    LibInit /\ RaceIdle /\ ResolvePoolInit /\ BatchIdle /\ TrIdle /\ KeysIdle /\ UrlIdle
    /\ CostIdle /\ LogIdle

SpecResolvePool == ResolvePoolSpecInit /\ [][ResolvePoolNext]_vars

-----------------------------------------------------------------------------
(* cost_tracker.py: the per-document tracking kept in threading.local() and *)
(* log_api_call.  A cost is a whole number of 1e-8 dollars, the precision   *)
(* calculate_cost rounds to.                                                *)

NumThreads == 2
MaxCalls == 2        \* log_api_call runs of one thread between two starts
CostThreads == 1..NumThreads

\* PRICING['serpapi']['per_search']: $0.01
SerpapiPerSearch == 1000000

\* PRICING per 1M tokens, as 1e-8 dollars per token: $2.50 and $10.00 for
\* openai, $3.00 and $15.00 for claude
PRICING ==
    [openai |-> [input |-> 250, output |-> 1000],
     claude |-> [input |-> 300, output |-> 1500]]

CostProviders == {"openai", "serpapi", "crossref"}
TokenCounts == {0, 1000}

\* calculate_cost(provider, input_tokens, output_tokens)
calculate_cost(provider, input_tokens, output_tokens) ==
    IF provider = "serpapi" THEN SerpapiPerSearch
    ELSE IF provider \notin DOMAIN PRICING THEN 0
    ELSE input_tokens * PRICING[provider].input
         + output_tokens * PRICING[provider].output

\* the tracking dict a thread gets when it first asks for it
NewTracking == [active |-> FALSE, db_session_id |-> 0, cost |-> 0, calls |-> 0]

\* one dict for the whole module, whatever the thread
get_current_tracking_global(thread) == 1

\* _get_current_tracking(): the dict of the calling thread's _thread_local
get_current_tracking(thread) == thread

\* counted only when the row could be written
TrackCallWhenStored(trk, cost, db_ok) ==
    IF trk.active /\ db_ok
    THEN [trk EXCEPT !.cost = @ + cost, !.calls = @ + 1] ELSE trk

\* log_api_call: "if tracking['active']: cost += cost; calls += 1", before
\* and apart from the database write
TrackCall(trk, cost, db_ok) ==
    IF trk.active
    THEN [trk EXCEPT !.cost = @ + cost, !.calls = @ + 1] ELSE trk

NoLedger == [open |-> FALSE, calls |-> 0, cost |-> 0]
NoSummary == [cost |-> 0, calls |-> 0]
NoCostTrace == [op |-> "none", thread |-> 0, db_ok |-> TRUE, raised |-> FALSE,
                was_active |-> FALSE, returned |-> 0, summary |-> NoSummary,
                ran |-> NoLedger]

CostInit ==
    /\ tracking = [t \in CostThreads |-> NewTracking]
    /\ ledger = [t \in CostThreads |-> NoLedger]
    /\ costTrace = NoCostTrace

notCost == <<libVars, raceVars, wfVars, batchVars, trVars, callerVars, keyVars,
             urlVars, resolveVars, logVars>>

\* start_document_tracking(session_id, ...): the state is reset, then the
\* DocumentSession row is written or not
StartDocumentTracking(thread, db_ok) ==
    LET k == get_current_tracking(thread)
    IN  /\ tracking' = [tracking EXCEPT ![k] =
                           [active |-> TRUE, db_session_id |-> IF db_ok THEN 1 ELSE 0,
                            cost |-> 0, calls |-> 0]]
        /\ ledger' = [ledger EXCEPT ![thread] = [NoLedger EXCEPT !.open = TRUE]]
        /\ costTrace' = [NoCostTrace EXCEPT !.op = "start", !.thread = thread,
                                            !.db_ok = db_ok]
        /\ UNCHANGED notCost

\* log_api_call(provider, input_tokens, output_tokens, **kwargs): a call
\* with a keyword that is not a parameter raises TypeError and does not run
LogApiCall(thread, provider, input_tokens, output_tokens, kwargs, db_ok) ==
    LET k == get_current_tracking(thread)
        cost == calculate_cost(provider, input_tokens, output_tokens)
    IN  /\ ledger[thread].calls < MaxCalls
        /\ IF LogApiCallRaises(kwargs)
           THEN /\ costTrace' = [NoCostTrace EXCEPT !.op = "log", !.thread = thread,
                                                   !.db_ok = db_ok, !.raised = TRUE]
                /\ UNCHANGED <<tracking, ledger>>
           ELSE /\ tracking' = [tracking EXCEPT ![k] = TrackCall(@, cost, db_ok)]
                /\ ledger' = [ledger EXCEPT ![thread] =
                                 IF @.open
                                 THEN [@ EXCEPT !.calls = @ + 1, !.cost = @ + cost]
                                 ELSE @]
                /\ costTrace' = [NoCostTrace EXCEPT !.op = "log", !.thread = thread,
                                                   !.db_ok = db_ok, !.returned = cost]
        /\ UNCHANGED notCost

\* finish_document_tracking(...): the summary, the update of the row and the
\* reset of the state
FinishDocumentTracking(thread, db_ok) ==
    LET k == get_current_tracking(thread)
        trk == tracking[k]
    IN  /\ costTrace' = [NoCostTrace EXCEPT
                           !.op = "finish", !.thread = thread, !.db_ok = db_ok,
                           !.was_active = trk.active,
                           !.summary = IF trk.active
                                       THEN [cost |-> trk.cost, calls |-> trk.calls]
                                       ELSE NoSummary,
                           !.ran = ledger[thread]]
        /\ tracking' = IF trk.active THEN [tracking EXCEPT ![k] = NewTracking]
                       ELSE tracking
        /\ ledger' = [ledger EXCEPT ![thread] = NoLedger]
        /\ UNCHANGED notCost

CostNext ==
    \/ \E thread \in CostThreads, db_ok \in BOOLEAN :
          StartDocumentTracking(thread, db_ok)
    \/ \E thread \in CostThreads, provider \in CostProviders,
          input_tokens \in TokenCounts, db_ok \in BOOLEAN,
          kwargs \in {{"provider", "query", "function"},
                      {"provider", "query", "function", "cost"}} :
          LogApiCall(thread, provider, input_tokens, 0, kwargs, db_ok)
    \/ \E thread \in CostThreads, db_ok \in BOOLEAN :
          FinishDocumentTracking(thread, db_ok)

CostSpecInit ==
    LibInit /\ RaceIdle /\ WfIdle /\ BatchIdle /\ TrIdle /\ KeysIdle /\ UrlIdle
    /\ ResolveIdle /\ CostInit /\ LogIdle

SpecCost == CostSpecInit /\ [][CostNext]_vars

-----------------------------------------------------------------------------
(* DocumentLogger in document_logger.py.  A cost is a Python float, written  *)
(* as its repr; FloatAdd is IEEE 754 double addition on the sums that a few  *)
(* calls can reach, as the interpreter computes them.                        *)

MaxLogged == 3

\* API_COSTS, for the sources of the model
API_COSTS == [serpapi |-> "0.005", gemini |-> "0.00015", crossref |-> "0.0"]

\* the sources log_citation is called with; my_engine is not in API_COSTS
LogSources == {"serpapi", "gemini", "crossref", "my_engine"}

\* a + b on floats
FloatAdd(a, b) ==
    IF a = "0.0" THEN b
    ELSE IF b = "0.0" THEN a
    ELSE
         CASE a = "0.00015" /\ b = "0.00015" -> "0.0003"
           [] a = "0.00015" /\ b = "0.005" -> "0.00515"
           [] a = "0.00015" /\ b = "0.01" -> "0.010150000000000001"
           [] a = "0.00015" /\ b = "0.015" -> "0.01515"
           [] a = "0.00015" /\ b = "0.02" -> "0.02015"
           [] a = "0.0003" /\ b = "0.00015" -> "0.00045"
           [] a = "0.0003" /\ b = "0.005" -> "0.0053"
           [] a = "0.0003" /\ b = "0.01" -> "0.0103"
           [] a = "0.0003" /\ b = "0.015" -> "0.0153"
           [] a = "0.00045" /\ b = "0.00015" -> "0.0006"
           [] a = "0.00045" /\ b = "0.005" -> "0.00545"
           [] a = "0.00045" /\ b = "0.01" -> "0.010450000000000001"
           [] a = "0.0006" /\ b = "0.00015" -> "0.0007499999999999999"
           [] a = "0.0006" /\ b = "0.005" -> "0.0056"
           [] a = "0.005" /\ b = "0.00015" -> "0.00515"
           [] a = "0.005" /\ b = "0.0003" -> "0.0053"
           [] a = "0.005" /\ b = "0.00045" -> "0.00545"
           [] a = "0.005" /\ b = "0.0006" -> "0.0056"
           [] a = "0.005" /\ b = "0.005" -> "0.01"
           [] a = "0.00515" /\ b = "0.00015" -> "0.0053"
           [] a = "0.00515" /\ b = "0.005" -> "0.01015"
           [] a = "0.0053" /\ b = "0.00015" -> "0.00545"
           [] a = "0.0053" /\ b = "0.005" -> "0.0103"
           [] a = "0.00545" /\ b = "0.00015" -> "0.0056"
           [] a = "0.00545" /\ b = "0.005" -> "0.010450000000000001"
           [] a = "0.01" /\ b = "0.00015" -> "0.010150000000000001"
           [] a = "0.01" /\ b = "0.0003" -> "0.0103"
           [] a = "0.01" /\ b = "0.00045" -> "0.010450000000000001"
           [] a = "0.01" /\ b = "0.005" -> "0.015"
           [] a = "0.01015" /\ b = "0.00015" -> "0.0103"
           [] a = "0.01015" /\ b = "0.005" -> "0.01515"
           [] a = "0.010150000000000001" /\ b = "0.00015" -> "0.010300000000000002"
           [] a = "0.010150000000000001" /\ b = "0.005" -> "0.01515"
           [] a = "0.0103" /\ b = "0.00015" -> "0.010450000000000001"
           [] a = "0.0103" /\ b = "0.005" -> "0.015300000000000001"
           [] a = "0.010300000000000002" /\ b = "0.00015" -> "0.010450000000000003"
           [] a = "0.010300000000000002" /\ b = "0.005" -> "0.015300000000000001"
           [] a = "0.015" /\ b = "0.00015" -> "0.01515"
           [] a = "0.015" /\ b = "0.0003" -> "0.0153"
           [] a = "0.015" /\ b = "0.005" -> "0.02"
           [] a = "0.01515" /\ b = "0.00015" -> "0.015300000000000001"
           [] a = "0.01515" /\ b = "0.005" -> "0.02015"
           [] a = "0.02" /\ b = "0.00015" -> "0.02015"
           [] a = "0.02" /\ b = "0.005" -> "0.025"
           [] OTHER -> "?"

\* __init__
NewDocumentLogger ==
    [total_cost |-> "0.0", total_citations |-> 0, successful_citations |-> 0,
     failed_citations |-> 0, api_usage |-> <<>>, citations |-> <<>>]

\* self.api_usage[source]['count'] += 1; ['cost'] += cost -- a dict keeps its
\* keys in the order they were first set
UseApi(api_usage, source, cost) ==
    IF \E i \in 1..Len(api_usage) : api_usage[i].source = source
    THEN [i \in 1..Len(api_usage) |->
            IF api_usage[i].source = source
            THEN [api_usage[i] EXCEPT !.count = @ + 1, !.cost = FloatAdd(@, cost)]
            ELSE api_usage[i]]
    ELSE Append(api_usage, [source |-> source, count |-> 1,
                            cost |-> FloatAdd("0.0", cost)])

\* the usage counted for resolved citations only
log_citation_resolved_only(lg, source, success) ==
    LET cost == IF source \in DOMAIN API_COSTS THEN API_COSTS[source] ELSE "0.0"
        total == lg.total_citations + 1
    IN  [total_cost |-> FloatAdd(lg.total_cost, cost),
         total_citations |-> total,
         successful_citations |-> lg.successful_citations + (IF success THEN 1 ELSE 0),
         failed_citations |-> lg.failed_citations + (IF success THEN 0 ELSE 1),
         api_usage |-> IF success THEN UseApi(lg.api_usage, source, cost)
                       ELSE lg.api_usage,
         citations |-> Append(lg.citations,
                              [citation_number |-> total, source |-> source,
                               success |-> success, cost |-> cost])]

\* log_citation(query, source, success, **components)
log_citation(lg, source, success) ==
    LET cost == IF source \in DOMAIN API_COSTS THEN API_COSTS[source] ELSE "0.0"
        total == lg.total_citations + 1
    IN  [total_cost |-> FloatAdd(lg.total_cost, cost),
         total_citations |-> total,
         successful_citations |-> lg.successful_citations + (IF success THEN 1 ELSE 0),
         failed_citations |-> lg.failed_citations + (IF success THEN 0 ELSE 1),
         api_usage |-> UseApi(lg.api_usage, source, cost),
         citations |-> Append(lg.citations,
                              [citation_number |-> total, source |-> source,
                               success |-> success, cost |-> cost])]

LoggerInit == docLogger = NewDocumentLogger

LogCitation(source, success) ==
    /\ docLogger.total_citations < MaxLogged
    /\ docLogger' = log_citation(docLogger, source, success)
    /\ UNCHANGED <<libVars, raceVars, wfVars, batchVars, trVars, callerVars,
                   keyVars, urlVars, resolveVars, costVars>>

LoggerNext == \E source \in LogSources, success \in BOOLEAN : LogCitation(source, success)

LoggerSpecInit ==
    LibInit /\ RaceIdle /\ WfIdle /\ BatchIdle /\ TrIdle /\ KeysIdle /\ UrlIdle
    /\ ResolveIdle /\ CostIdle /\ LoggerInit

SpecLogger == LoggerSpecInit /\ [][LoggerNext]_vars

-----------------------------------------------------------------------------
(* Claims about concurrent writes *)

AuthorsParse(components) ==
    \A i \in 1..Len(components.authors) : ~AuthorParseRaises(components.authors[i])

\* every worker has called save_to_global for the same primary key, with
\* components that can be stored, and every call has returned
AllSavedSameKey ==
    \A w \in Workers :
        /\ wk[w].pc = "done"
        /\ wk[w].keys[1] = wk[1].keys[1]
        /\ AuthorsParse(wk[w].components)

\* C1: when two workers that both missed on the same primary key both call
\* save_to_global for it, in any interleaving of their statements, the shared
\* tier ends with exactly one record for that key and its hit counter equals
\* the number of calls (2).
C1_OneRecordCountTwo ==
    AllSavedSameKey =>
        /\ Cardinality({c \in citations : c.lookup_key = wk[1].keys[1]}) = 1
        /\ \A c \in citations :
              c.lookup_key = wk[1].keys[1] => c.lookup_count = NumWorkers

-----------------------------------------------------------------------------
(* Claims about the library driven by one caller at a time *)

KeysOf(req) == generate_alias_keys(req)

\* C3: a library_lookup with a user id for which some generated key hits the
\* user tier returns hit_source "user" and sends no query to the shared tier.
C3_UserHitSkipsGlobal ==
    [][ ( /\ ret'.op = "lookup"
          /\ ret'.uid # NoUser
          /\ dbState = "up"
          /\ \E i \in 1..Len(KeysOf(ret'.req)) :
                UserRows(ret'.uid, KeysOf(ret'.req)[i]) # {} )
        => ( ret'.hit_source = "user" /\ ret'.nGlobal = 0 /\ ret'.cid # 0 ) ]_vars

C3_Witness ==
    /\ ret.op = "lookup"
    /\ ret.hit_source = "user"
    /\ ret.nUser >= 1
    /\ \E k \in {KeysOf(ret.req)[i] : i \in 1..Len(KeysOf(ret.req))} :
          GlobalRows(k) # {}

\* C5: once a library_lookup with a user id has returned "global", the same
\* lookup repeated for the same user returns "user".
C5_PromotedThenUserHit ==
    [][ ( /\ ret.op = "lookup" /\ ret.hit_source = "global" /\ ret.uid # NoUser
          /\ ret'.op = "lookup" /\ ret'.req = ret.req /\ ret'.uid = ret.uid
          /\ dbState = "up" )
        => ret'.hit_source = "user" ]_vars

AliasKeysUnique ==
    \A a, b \in lookup_aliases : a.alias_key = b.alias_key => a = b

\* C7: an alias key never maps to more than one record, and no call changes
\* or removes the mapping of an alias key that is already bound.
C7_AliasBoundOnce ==
    [][ AliasKeysUnique' /\ (\A a \in lookup_aliases : a \in lookup_aliases') ]_vars

C7_Witness ==
    /\ ret.op = "save" /\ ret.path = "insert"
    /\ \E i \in 2..Len(KeysOf(ret.req)) :
          \E a \in lookup_aliases :
              a.alias_key = KeysOf(ret.req)[i] /\ a.citation_id # ret.cid

\* C8: a save_to_global, run alone on a reachable store, whose primary key
\* already has a record inserts nothing, adds exactly 1 to that record's
\* lookup_count, leaves its other fields alone and returns its id.
C8_ExistingKeyIncrements ==
    [][ \A c \in citations :
          ( ret'.op = "save" /\ dbState = "up"
            /\ c.lookup_key = KeysOf(ret'.req)[1] )
          => /\ ret'.cid = c.id
             /\ citations' = (citations \ {c})
                              \cup {[c EXCEPT !.lookup_count = c.lookup_count + 1]}
             /\ citation_authors' = citation_authors
             /\ lookup_aliases' = lookup_aliases
             /\ nextId' = nextId ]_vars

C8_Witness ==
    /\ ret.op = "save" /\ ret.path = "increment"
    /\ \E c \in citations :
          c.id = ret.cid /\ c.lookup_count = DefaultLookupCount + 1 /\ c.title = "t1"
    /\ Cardinality(citations) = 2

\* C9: while the store cannot be reached (no connection, or every query
\* fails) lookup_user_library and lookup_global return None without raising
\* and library_lookup returns (None, "miss").
C9_UnreachableStoreMisses ==
    /\ dbState # "up" =>
          \A req \in LibRequests : \A i \in 1..Len(KeysOf(req)) :
              /\ lookup_global(KeysOf(req)[i]) = {Miss}
              /\ \A u \in UserIds : lookup_user_library(u, KeysOf(req)[i]) = {Miss}
    /\ (ret.op = "lookup" /\ ret.db # "up") =>
          ret.hit_source = "miss" /\ ret.cid = 0 /\ ~ret.raised

C9_Witness ==
    /\ ret.op = "lookup" /\ ret.db = "query_fails" /\ ret.uid # NoUser
    /\ \E i \in 1..Len(KeysOf(ret.req)) :
          /\ UserRows(ret.uid, KeysOf(ret.req)[i]) # {}
          /\ GlobalRows(KeysOf(ret.req)[i]) # {}

-----------------------------------------------------------------------------
(* Claims about the news waterfall *)

\* the free provider can resolve the request: its feed has an entry with a title
RssResolves(resp) ==
    /\ resp.kind = "http" /\ resp.status = 200
    /\ resp.entries # <<>>
    /\ resp.entries[1].title = <<"T">>

\* C2: in a resolve() of a URL with extractable keywords that Google News
\* RSS can resolve, with SerpAPI configured, the first request goes to
\* Google News RSS and no request goes to SerpAPI.
C2_FreeFirstSerpNever ==
    ( /\ wfTrace.op = "resolve"
      /\ wfTrace.keywords # <<>>
      /\ RssResolves(wfTrace.rss)
      /\ resolver.has_serpapi )
    => ( /\ wfTrace.sent # <<>>
         /\ wfTrace.sent[1] = "google_news_rss"
         /\ \A i \in 1..Len(wfTrace.sent) : wfTrace.sent[i] # "serpapi" )

\* C20: resolve() returns a provider's result only if the result has a title
\* and at least one of author or date; a result with a title but neither is
\* treated as empty.
C20_CompletenessBar ==
    ( /\ wfTrace.op = "resolve"
      /\ wfTrace.result.method_used \notin {"None", "none"} )
    => ( /\ wfTrace.result.title # <<>>
         /\ (wfTrace.result.authors # <<>> \/ wfTrace.result.date # "") )

\* C27: a log_api_call made during a provider attempt never raises into the
\* resolver and never changes the outcome of the attempt: when the feed of
\* Google News RSS has an entry with a title, the attempt gives that record
\* and resolve() returns it.
C27_TelemetryKeepsOutcome ==
    ( /\ wfTrace.op = "resolve"
      /\ wfTrace.keywords # <<>>
      /\ RssResolves(wfTrace.rss) )
    => wfTrace.result.method_used = "google_news_rss"

\* the calls counted today by the resolver's counter for provider
CountedToday(counter) == IF today = resolver.last_reset THEN counter ELSE 0

-----------------------------------------------------------------------------
(* Claims about the parallel batch lookup *)

\* the components lookup_single leaves on a citation whose lookup got r
Kept(r) ==
    IF ~r.raises /\ r.components # NoComponents /\ r.components.minimum
    THEN r.components ELSE NoComponents

\* C4: whatever the order in which the futures complete, when
\* _lookup_all_citations has returned the citation list has the length and
\* the order it had, and each citation carries what the lookup of its own
\* original_text got: the components resolved for that text, or none.
C4_OrderAndOwnership ==
    bpc = "done" =>
        /\ Len(cits) = Len(batchInput)
        /\ Len(doneOrder) = Len(cits)
        /\ \A i \in 1..Len(cits) : cits[i].original_text = batchInput[i]
        /\ \A n \in 1..Len(doneOrder) :
              /\ cits[doneOrder[n].index].components = Kept(doneOrder[n].got)
              /\ Kept(doneOrder[n].got) \in
                    {NoComponents,
                     [query |-> batchInput[doneOrder[n].index], minimum |-> TRUE]}
        /\ \A t \in DOMAIN components_map :
              components_map[t] = [query |-> t, minimum |-> TRUE]

C4_Witness ==
    /\ bpc = "done"
    /\ Len(cits) = MaxCitations
    /\ doneOrder[1].index > doneOrder[2].index
    /\ \E i, j \in 1..Len(cits) :
          /\ cits[i].original_text # cits[j].original_text
          /\ cits[i].components # NoComponents
          /\ cits[j].components # NoComponents

-----------------------------------------------------------------------------
(* Claims about the transport *)

\* C10: against a provider that answers 429 to every request, a
\* _make_request call that has ended has sent exactly MAX_RETRIES + 1
\* requests and has returned None.
C10_Always429GivesUp ==
    (providerMode = "always429" /\ tr.pc \in {"returned", "raised"}) =>
        /\ tr.sent = MAX_RETRIES + 1
        /\ tr.pc = "returned"
        /\ tr.result = "None"

\* a retry is about to be sent: the call has slept after the 429 kept in last
RetryPending ==
    /\ tr.pc = "send"
    /\ tr.retry_count > 0
    /\ tr.last.kind = "http" /\ tr.last.status = 429

\* C11: after a 429 with an integer Retry-After of n seconds, the next attempt
\* is sent only after a sleep of at least n seconds.
C11_WaitsRetryAfter ==
    (RetryPending /\ tr.last.retry_after.kind = "int") =>
        /\ Len(tr.slept) = tr.retry_count
        /\ tr.slept[Len(tr.slept)] >= tr.last.retry_after.n

C11_Witness ==
    /\ RetryPending
    /\ tr.last.retry_after = [kind |-> "int", n |-> 3]
    /\ tr.slept[Len(tr.slept)] = 3

\* C12: after a 429 whose Retry-After is absent or no integer, the sleep
\* before retry number k (k = 0 for the first retry) is
\* RETRY_DELAY_BASE * 2^k: the base delay first, doubled for each later retry.
C12_ExponentialBackoff ==
    (RetryPending /\ tr.last.retry_after.kind \in {"absent", "empty", "text"}) =>
        /\ Len(tr.slept) = tr.retry_count
        /\ tr.slept[tr.retry_count] = RETRY_DELAY_BASE * Pow2(tr.retry_count - 1)
        /\ tr.retry_count = 1 => tr.slept[1] = RETRY_DELAY_BASE
        /\ tr.retry_count = 2 => tr.slept[2] = 2 * RETRY_DELAY_BASE

C12_Witness ==
    /\ RetryPending
    /\ tr.retry_count = 2
    /\ tr.last.retry_after.kind = "text"
    /\ tr.slept[2] = 4

\* C13: a timeout or a 5xx answer that arrives while retries remain does not
\* end the call: it is retried.
C13_TransientRetried ==
    [][ ( /\ tr.pc = "send"
          /\ tr'.sent = tr.sent + 1
          /\ tr.retry_count < MAX_RETRIES
          /\ \/ tr'.last.kind = "timeout"
             \/ tr'.last.kind = "http" /\ tr'.last.status >= 500 )
        => tr'.pc # "returned" ]_vars

\* C15: _make_request never raises to its caller.
C15_NeverRaises == tr.pc # "raised"

-----------------------------------------------------------------------------
(* Claims about lookups that hang or raise, and about the pool *)

Hung == {i \in 1..Len(futs) : futs[i] = "hung"}

\* C17: when the lookup of one citation never returns, _lookup_all_citations
\* still returns: as long as it has not returned it can take a further step.
C17_ReturnsDespiteHang ==
    Hung # {} => (bpc = "done" \/ ENABLED BatchNext)

\* C18: when the lookup of a citation raises, that citation is left with no
\* components and no parenthetical, every citation of the batch has been
\* looked up and the others carry what their own lookup got; the call has
\* returned.
C18_RaiseLeavesOthers ==
    (bpc = "done" /\ \E n \in 1..Len(doneOrder) : doneOrder[n].got.raises) =>
        /\ {doneOrder[n].index : n \in 1..Len(doneOrder)} = 1..Len(batchInput)
        /\ \A n \in 1..Len(doneOrder) :
              LET c == cits[doneOrder[n].index]
              IN  IF doneOrder[n].got.raises
                  THEN c.components = NoComponents /\ ~c.parenthetical
                  ELSE c.components = Kept(doneOrder[n].got)

C18_Witness ==
    /\ bpc = "done"
    /\ Len(cits) = MaxCitations
    /\ doneOrder[1].got.raises
    /\ \E n \in 2..Len(doneOrder) :
          cits[doneOrder[n].index].components # NoComponents

\* C19: at most max_workers (5) lookups are in flight at any moment, however
\* many citations there are, and none is running or waiting once the pool
\* has been left.
C19_AtMostFiveInFlight ==
    /\ Cardinality(Busy) <= 5
    /\ bpc \in {"map", "done"} => (Busy = {} /\ Queued = {})

C19_Witness ==
    /\ Cardinality(Busy) = 5
    /\ Queued # {}
    /\ Len(cits) > 5

-----------------------------------------------------------------------------
(* Claims about MultiAttemptEngine.search *)

\* a 4xx status other than 429
IsTerminal4xx(a) ==
    a.kind = "http" /\ a.status >= 400 /\ a.status < 500 /\ a.status # 429

\* C14: after a 4xx answer other than 429, _make_request sends no retry, and
\* search sends no further request to the provider: the call that got the
\* answer is the last one of the search that sends anything.
C14_TerminalEndsProvider ==
    /\ IsTerminal4xx(tr.last) => tr.pc \notin {"send", "sleep"}
    /\ \A j \in 1..Len(search.log) :
          IsTerminal4xx(search.log[j].last) =>
              /\ j = Len(search.log)
              /\ ~(search.pc = "request" /\ tr.sent > 0)

-----------------------------------------------------------------------------
(* Claims about workers sharing a provider *)

\* worker w is waiting out a backoff after a 429: time.sleep(delay) with a
\* positive delay is running
InBackoff(w) == calls[w].pc = "sleep" /\ calls[w].delay > 0

\* C16: calls to one provider are throttled per provider: while one worker
\* is waiting out a backoff after a 429 from the provider, no other worker
\* sends a request to it.
C16_ThrottledPerProvider ==
    [][\A w \in DOMAIN calls : InBackoff(w) =>
          \A v \in DOMAIN calls \ {w} : calls'[v].sent = calls[v].sent]_vars

-----------------------------------------------------------------------------
(* Claims about the key functions *)

IsLetter(ch) == ch \in LowerLetters \cup UpperLetters

\* two names differ at most in letter case and in non-letter characters
SameName(n1, n2) ==
    LET l1 == SelectSeq(n1, IsLetter)
        l2 == SelectSeq(n2, IsLetter)
    IN  /\ Len(l1) = Len(l2)
        /\ \A i \in 1..Len(l1) : LowerChar(l1[i]) = LowerChar(l2[i])

\* one list is the other in some order, name for name up to case and
\* non-letter characters
SameAuthorsAnyOrder(a1, a2) ==
    /\ Len(a1) = Len(a2)
    /\ \E p \in [1..Len(a1) -> 1..Len(a1)] :
          /\ \A i, j \in 1..Len(a1) : p[i] = p[j] => i = j
          /\ \A i \in 1..Len(a1) : SameName(a1[i], a2[p[i]])

\* C22: generate_lookup_key returns the same key for every permutation of
\* the author list with the same year, and for names that differ only in
\* letter case or non-letter characters.
C22_KeyOrderAndCaseFree ==
    keyCall.op = "generate_lookup_key" =>
        \A other \in AuthorLists :
            SameAuthorsAnyOrder(keyCall.authors, other) =>
                generate_lookup_key(other, keyCall.year) = keyCall.keys[1]

\* a call with three different names that were not given in sorted order
C22_Witness ==
    /\ keyCall.op = "generate_lookup_key"
    /\ keyCall.authors = << <<"b">>, <<"A", "'">>, <<"b", "a">> >>
    /\ keyCall.keys[1] = <<"a", "_", "b", "_", "b", "a", "_">> \o keyCall.year

\* the three author arguments of a request, absent ones included
Slots(req) == <<req.author, req.second_author, req.third_author>>

\* the same authors spread over the three arguments in another order
SameSlotsAnyOrder(r1, r2) ==
    /\ r1.year = r2.year
    /\ r1.is_et_al = r2.is_et_al
    /\ \E p \in [1..3 -> 1..3] :
          /\ \A i, j \in 1..3 : p[i] = p[j] => i = j
          /\ \A i \in 1..3 : Slots(r1)[i] = Slots(r2)[p[i]]

\* C23 as stated: generate_alias_keys returns the identical ordered list of
\* keys for every ordering of the same authors across author, second_author
\* and third_author, given the same year and et-al flag.
C23_AliasKeysOrderFree ==
    keyCall.op = "generate_alias_keys" =>
        \A other \in KeyRequests :
            SameSlotsAnyOrder(keyCall.req, other) =>
                generate_alias_keys(other) = keyCall.keys

\* C23 amended: for every ordering of the same authors across the three
\* arguments the primary key (the first of the list) is identical; the whole
\* list is identical when moreover the same author is passed as author.
C23_PrimaryKeyOrderFree ==
    keyCall.op = "generate_alias_keys" =>
        \A other \in KeyRequests :
            SameSlotsAnyOrder(keyCall.req, other) =>
                /\ generate_alias_keys(other)[1] = keyCall.keys[1]
                /\ other.author = keyCall.req.author =>
                       generate_alias_keys(other) = keyCall.keys

\* a call with two different authors, the later one in the alphabet first
C23_Witness ==
    /\ keyCall.op = "generate_alias_keys"
    /\ keyCall.req.author = <<"b">>
    /\ keyCall.req.second_author = <<"a">>
    /\ keyCall.req.third_author = <<>>
    /\ keyCall.keys[1] = <<"a", "_", "b", "_">> \o keyCall.year

\* is key one of keys
HasKey(keys, key) == \E i \in 1..Len(keys) : keys[i] = key

\* C24: the list generate_alias_keys returns has the all-authors primary key
\* first; with more than one author it contains firstauthor_year and
\* firstauthor_et_al_year; with is_et_al it contains firstauthor_et_al_year
\* even for a single author.
C24_AliasKeysContents ==
    keyCall.op = "generate_alias_keys" =>
        LET req == keyCall.req
            first == normalize_author_name(req.author)
            first_year == first \o <<"_">> \o req.year
            first_et_al_year == first \o <<"_", "e", "t", "_", "a", "l", "_">> \o req.year
            several == req.second_author # <<>> \/ req.third_author # <<>>
        IN  /\ keyCall.keys # <<>>
            /\ keyCall.keys[1] = generate_lookup_key(Slots(req), req.year)
            /\ several => HasKey(keyCall.keys, first_year)
                          /\ HasKey(keyCall.keys, first_et_al_year)
            /\ req.is_et_al => HasKey(keyCall.keys, first_et_al_year)

\* a single author cited with et al.
C24_Witness ==
    /\ keyCall.op = "generate_alias_keys"
    /\ keyCall.req.author = <<"A", "'">>
    /\ keyCall.req.second_author = <<>>
    /\ keyCall.req.third_author = <<>>
    /\ keyCall.req.is_et_al
    /\ keyCall.keys = << <<"a", "_">> \o keyCall.year,
                         <<"a", "_", "e", "t", "_", "a", "l", "_">> \o keyCall.year >>

-----------------------------------------------------------------------------
(* Claims about library_lookup and the records of the shared tier *)

\* C25: when the author given to library_lookup is empty or normalizes to
\* an empty string, library_lookup returns (None, "miss") without querying
\* the user tier or the shared tier.
C25_MalformedShortCircuits ==
    ( /\ ret.op = "lookup"
      /\ normalize_author_name(ret.req.author) = <<>> )
    => ( /\ ret.hit_source = "miss"
         /\ ret.cid = 0
         /\ ret.nUser = 0
         /\ ret.nGlobal = 0 )

\* C26 as stated: every library_lookup call emits exactly one lookup-log
\* entry before it returns, with the hit_source it returns.
C26_OneLogEntry ==
    ret.op = "lookup" =>
        /\ ret.nLog = 1
        /\ lookup_log[Len(lookup_log)].hit_source = ret.hit_source

\* C26 amended: a library_lookup call made while the store is reachable and
\* its statements succeed emits exactly one lookup-log entry before it
\* returns, with the hit_source it returns; a call made while the store is
\* unreachable or failing returns "miss" and emits no entry.
C26_OneLogEntryWhenStoreUp ==
    ret.op = "lookup" =>
        IF ret.db = "up"
        THEN /\ ret.nLog = 1
             /\ lookup_log[Len(lookup_log)].hit_source = ret.hit_source
        ELSE /\ ret.nLog = 0
             /\ ret.hit_source = "miss"

\* a shared hit has been logged, after an earlier entry
C26_Witness ==
    /\ ret.op = "lookup"
    /\ ret.hit_source = "global"
    /\ ret.nLog = 1
    /\ Len(lookup_log) = 2

\* C28: through any sequence of library_lookup, save_to_global and
\* add_to_user_library calls no shared-tier record is removed, no record's
\* bibliographic fields or primary key change, and no record's lookup_count
\* decreases.
C28_RecordsKept ==
    [][\A c \in citations :
          /\ \E d \in citations' :
                /\ d.id = c.id
                /\ d.lookup_key = c.lookup_key
                /\ d.title = c.title
                /\ d.confidence = c.confidence
                /\ d.lookup_count >= c.lookup_count
          /\ {a \in citation_authors' : a.citation_id = c.id}
               = {a \in citation_authors : a.citation_id = c.id}]_vars

\* a second save under the key of a stored record has counted
C28_Witness ==
    /\ ret.op = "save"
    /\ ret.path = "increment"
    /\ \E c \in citations : c.id = ret.cid /\ c.lookup_count > DefaultLookupCount

\* the smallest index of a non-empty set of indexes
FirstOf(S) == CHOOSE i \in S : \A j \in S : i <= j

\* C30: library_lookup returns "user" with the record of the first
\* generated key that hits the user tier when a user id is given; otherwise
\* "global" with the record of the first generated key that hits the shared
\* tier; otherwise (None, "miss").  The shared tier is queried only when the
\* user tier missed for every key.
C30_FirstHitInOrder ==
    [][ret'.op = "lookup" =>
        LET keys == generate_alias_keys(ret'.req)
            uid == ret'.uid
            userHits == {i \in 1..Len(keys) :
                           /\ dbState = "up" /\ uid # NoUser
                           /\ UserRows(uid, keys[i]) # {}}
            globalHits == {i \in 1..Len(keys) :
                             dbState = "up" /\ GlobalRows(keys[i]) # {}}
        IN  /\ ret'.nGlobal > 0 => userHits = {}
            /\ IF userHits # {}
               THEN /\ ret'.hit_source = "user"
                    /\ \E p \in UserRows(uid, keys[FirstOf(userHits)]) :
                          ret'.cid = p[2].id
               ELSE IF globalHits # {}
               THEN /\ ret'.hit_source = "global"
                    /\ \E c \in GlobalRows(keys[FirstOf(globalHits)]) :
                          ret'.cid = c.id
               ELSE /\ ret'.hit_source = "miss"
                    /\ ret'.cid = 0]_vars

\* a shared hit on a key after the primary one, for a request with a user
C30_Witness ==
    /\ ret.op = "lookup"
    /\ ret.uid # NoUser
    /\ ret.hit_source = "global"
    /\ ret.nUser = Len(generate_alias_keys(ret.req))
    /\ ret.nGlobal > 1

-----------------------------------------------------------------------------
(* Claims about SmartURLRouter *)

\* a record that meets the bar: a title and at least one of author and date
UsableRecord(m) == m.title # "" /\ (m.authors # <<>> \/ m.date # "")

\* provider got a request during the last resolve()
WasTried(provider) ==
    \E i \in 1..Len(urlTrace.sent) : urlTrace.sent[i] = provider

\* C21: in SmartURLRouter.resolve, lookup_newspaper_url is called only after
\* every configured cheaper provider (TheNewsAPI, NewsData, SerpAPI) has been
\* tried for the URL and none gave a usable record.
C21_AiLastResort ==
    (urlTrace.op = "resolve" /\ urlTrace.ai_called) =>
        /\ urlRouter.has_thenewsapi => WasTried("thenewsapi")
        /\ urlRouter.has_newsdata => WasTried("newsdata")
        /\ urlRouter.has_serpapi => WasTried("serpapi")
        /\ \A i \in 1..Len(urlTrace.records) : ~UsableRecord(urlTrace.records[i])

-----------------------------------------------------------------------------
(* Claims about the attempts of a search *)

RECURSIVE RequestsOf(_)
RequestsOf(log) ==
    IF log = <<>> THEN 0 ELSE Head(log).sent + RequestsOf(Tail(log))

\* C31: search runs its attempts in list order, returns the result of the
\* first attempt whose parsed result has minimum data without running a
\* later attempt, and returns None when no attempt qualifies; it sends at
\* most (number of attempts) * (MAX_RETRIES + 1) requests.  A search whose
\* parse_response raised is left aside: every other search has to return.
C31_FirstQualifyingAttempt ==
    /\ search.pc = "raised" => search.log[Len(search.log)].parsed = "raises"
    /\ RequestsOf(search.log) + (IF search.pc = "request" THEN tr.sent ELSE 0)
         <= search.n * (MAX_RETRIES + 1)
    /\ \A j \in 1..(Len(search.log) - 1) : search.log[j].parsed # "found"
    /\ search.pc = "returned" =>
          IF \E j \in 1..Len(search.log) : search.log[j].parsed = "found"
          THEN search.result = "result"
          ELSE search.result = "None" /\ Len(search.log) = search.n

-----------------------------------------------------------------------------
(* Claims about the user tier's records *)

\* C35: every record returned by lookup_user_library has confidence 1.0,
\* whatever the shared-tier record carries and whatever overrides are
\* stored with the user's copy.
C35_UserHitFullConfidence ==
    (ret.op = "lookup" /\ ret.hit_source = "user") => ret.confidence = 10

-----------------------------------------------------------------------------
(* Claims about a save that fails part-way *)

-----------------------------------------------------------------------------
(* Claims about the URLs the router leaves to the direct fetch *)

\* the domain or one of its parent domains is an institution's
InstitutionalDomain(domain) ==
    \E k \in 1..Len(domain) :
        SubSeq(domain, k, Len(domain)) \in INSTITUTIONAL_AUTHORS

\* C38: resolve sends no request to any provider (news APIs, SerpAPI, AI)
\* when the URL's domain is institutional (exact or parent-domain match) or
\* is not in NEWS_DOMAINS, and the metadata it returns is not complete.
C38_OpenSitesCostNothing ==
    (/\ urlTrace.op = "resolve"
     /\ \/ InstitutionalDomain(urlTrace.url.domain)
        \/ urlTrace.url.domain \notin NEWS_DOMAINS) =>
        /\ urlTrace.sent = <<>>
        /\ urlTrace.logged = <<>>
        /\ ~urlTrace.ai_called
        /\ ~UrlIsComplete(urlTrace.result)

\* a router with every key resolved a URL on a subdomain of an institution,
\* and the institution came back as the author
C38_Witness ==
    /\ urlTrace.op = "resolve"
    /\ urlTrace.url.domain = <<"data", "cdc", "gov">>
    /\ urlRouter.has_thenewsapi /\ urlRouter.has_newsdata /\ urlRouter.has_serpapi
    /\ urlTrace.result.method_used = "institutional_author"

-----------------------------------------------------------------------------
(* Claims about one resolver shared by several threads *)

RECURSIVE AddedBy(_, _)
\* the "+= 1" statements on the counter of provider completed by threads 1..n
AddedBy(n, provider) ==
    IF n = 0 THEN 0 ELSE resolving[n].added[provider] + AddedBy(n - 1, provider)

-----------------------------------------------------------------------------
(* Claims about the cost tracking of a document *)

\* C32: on one thread the summary of finish_document_tracking has calls
\* equal to the number of log_api_call runs since the matching start and
\* cost equal to the sum of the costs they returned, whether or not the
\* database writes succeeded; after finish the tracking is inactive with
\* cost 0 and calls 0, and a finish without a start returns cost 0, calls 0.
C32_SummaryCountsEveryCall ==
    costTrace.op = "finish" =>
        /\ costTrace.was_active =>
              /\ costTrace.ran.open
              /\ costTrace.summary.calls = costTrace.ran.calls
              /\ costTrace.summary.cost = costTrace.ran.cost
        /\ ~costTrace.was_active => costTrace.summary = NoSummary
        /\ LET trk == tracking[costTrace.thread]
           IN  ~trk.active /\ trk.cost = 0 /\ trk.calls = 0

\* a finish returned a summary of two calls with a cost, after a start whose
\* row could not be written
C32_Witness ==
    /\ costTrace.op = "finish" /\ costTrace.was_active
    /\ costTrace.summary.calls = 2 /\ costTrace.summary.cost > 0
    /\ ~costTrace.db_ok

\* C33: a log_api_call run by one thread never changes the cost or calls
\* of the tracking of another thread, so the calls of other threads are not
\* in the summary of the thread that started the tracking.
C33_TrackingPerThread ==
    [][/\ \A t \in CostThreads :
            (costTrace'.op = "log" /\ costTrace'.thread # t) =>
                tracking'[t] = tracking[t]
       /\ (costTrace'.op = "finish" /\ costTrace'.was_active) =>
                costTrace'.summary.calls = ledger[costTrace'.thread].calls]_vars

\* thread 2 has run log_api_call while the tracking of thread 1 was active,
\* and that tracking still has no call
C33_Witness ==
    /\ costTrace.op = "log" /\ costTrace.thread = 2 /\ ~costTrace.raised
    /\ costTrace.returned > 0
    /\ tracking[1].active /\ tracking[1].calls = 0

-----------------------------------------------------------------------------
(* Claims about the totals of a DocumentLogger *)

RECURSIVE SumCounts(_)
SumCounts(api_usage) ==
    IF api_usage = <<>> THEN 0
    ELSE Head(api_usage).count + SumCounts(Tail(api_usage))

RECURSIVE SumCosts(_)
\* sum(stats['cost'] for stats in api_usage.values())
SumCosts(api_usage) ==
    IF api_usage = <<>> THEN "0.0"
    ELSE FloatAdd(SumCosts(SubSeq(api_usage, 1, Len(api_usage) - 1)),
                  api_usage[Len(api_usage)].cost)

\* the counts of the logger agree with each other and with the records
LoggerCountsAgree ==
    /\ docLogger.total_citations
         = docLogger.successful_citations + docLogger.failed_citations
    /\ docLogger.total_citations = Len(docLogger.citations)
    /\ docLogger.total_citations = SumCounts(docLogger.api_usage)
    /\ \A i \in 1..Len(docLogger.citations) :
          docLogger.citations[i].citation_number = i

\* C37: after any sequence of log_citation calls total_citations equals
\* successful + failed, the number of stored records and the sum of the
\* per-source counts; the i-th record has citation_number i; and total_cost
\* equals the sum of the per-source costs of api_usage.
C37_TotalsAgree ==
    /\ LoggerCountsAgree
    /\ docLogger.total_cost = SumCosts(docLogger.api_usage)

====
